---------------------------- MODULE Spec2Model ----------------------------
(***************************************************************************)
(* The URL threat analysis engine of backend/features/url_analyzer_simple  *)
(* (class URLAnalyzer) as a state machine: one analyzer object, the        *)
(* module-level reference data it reads, and calls of analyze_url.         *)
(*                                                                         *)
(* Representation.                                                         *)
(*  - A Python str is a TLA+ string; position i of a str s is the          *)
(*    one-character string SubSeq(s, i, i) (1-based here, 0-based in the   *)
(*    code; positions reported by the code are kept 0-based).              *)
(*  - TLA+ strings are ASCII.  The one non-ASCII code point the inputs use *)
(*    (CYRILLIC SMALL LETTER A, U+0430) is written with the stand-in       *)
(*    character CYRILLIC_A; ord gives it its real code point.  Inputs      *)
(*    never hold the stand-in's own ASCII character, whitespace, ']',      *)
(*    ';' or '#'.                                                          *)
(*  - The keys of CONFUSABLE_CHARS are kept as the code points of the key  *)
(*    strings exactly as the source file spells them.                      *)
(*  - A float score is an integer number of hundredths (0.15 is 15).       *)
(*    Every weight of the code is a whole number of hundredths, and the    *)
(*    sums compared here differ from the float sums by less than 1e-15.    *)
(***************************************************************************)
EXTENDS Integers, Sequences, FiniteSets, TLC

(***************************************************************************)
(* Characters                                                              *)
(***************************************************************************)
\* The printable ASCII characters in code-point order: 32..95, then 97..126
\* (a TLA+ string cannot hold the grave accent, code point 96).
ASCII_32_95 ==
    " !\"#$%&'()*+,-./0123456789:;<=>?@ABCDEFGHIJKLMNOPQRSTUVWXYZ[\\]^_"

ASCII_97_126 == "abcdefghijklmnopqrstuvwxyz{|}~"

\* Stand-in for U+0430, the Cyrillic letter that looks like Latin a.
CYRILLIC_A == "~"

Char(s, i) == SubSeq(s, i, i)

index_in(table, c) ==
    IF \E i \in 1..Len(table) : Char(table, i) = c
    THEN CHOOSE i \in 1..Len(table) : Char(table, i) = c
    ELSE 0

\* Python ord(c) for a one-character string.
ord(c) ==
    IF c = CYRILLIC_A THEN 1072
    ELSE IF index_in(ASCII_97_126, c) > 0 THEN 96 + index_in(ASCII_97_126, c)
    ELSE 31 + index_in(ASCII_32_95, c)

\* Python chr(n) for the code points of the model's alphabet.
chr(n) ==
    IF n = 1072 THEN CYRILLIC_A
    ELSE IF n >= 97 THEN Char(ASCII_97_126, n - 96)
    ELSE Char(ASCII_32_95, n - 31)

\* str.lower() on one character: A-Z fold to a-z, U+0430 is already lower case.
lower_char(c) == IF ord(c) \in 65..90 THEN chr(ord(c) + 32) ELSE c

isdigit(c) == ord(c) \in 48..57

(***************************************************************************)
(* str methods and operators used by the analyzer                          *)
(***************************************************************************)
Min(a, b) == IF a <= b THEN a ELSE b

\* s.lower(): every character folded, in order (the string is split in halves
\* so that the evaluation stays shallow on long URLs).
RECURSIVE lower(_)
lower(s) ==
    IF s = "" THEN ""
    ELSE IF Len(s) = 1 THEN lower_char(s)
    ELSE lower(SubSeq(s, 1, Len(s) \div 2)) \o lower(SubSeq(s, Len(s) \div 2 + 1, Len(s)))

\* sub in s
contains(s, sub) ==
    \E i \in 1..(Len(s) - Len(sub) + 1) : SubSeq(s, i, i + Len(sub) - 1) = sub

startswith(s, prefix) ==
    Len(s) >= Len(prefix) /\ SubSeq(s, 1, Len(prefix)) = prefix

endswith(s, suffix) ==
    Len(s) >= Len(suffix) /\ SubSeq(s, Len(s) - Len(suffix) + 1, Len(s)) = suffix

\* s.find(sub) + 1: the first 1-based position of sub in s, 0 when absent.
find(s, sub) ==
    IF contains(s, sub)
    THEN CHOOSE i \in 1..(Len(s) - Len(sub) + 1) :
            /\ SubSeq(s, i, i + Len(sub) - 1) = sub
            /\ \A j \in 1..(i - 1) : SubSeq(s, j, j + Len(sub) - 1) # sub
    ELSE 0

\* s.split(sep) for a non-empty separator: a list of Len >= 1.
RECURSIVE split(_, _)
split(s, sep) ==
    LET i == find(s, sep) IN
    IF i = 0 THEN <<s>>
    ELSE <<SubSeq(s, 1, i - 1)>> \o split(SubSeq(s, i + Len(sep), Len(s)), sep)

\* s.replace(old, new) for non-empty old: every non-overlapping occurrence, left to right.
RECURSIVE replace(_, _, _)
replace(s, old, new) ==
    LET i == find(s, old) IN
    IF i = 0 THEN s
    ELSE SubSeq(s, 1, i - 1) \o new \o replace(SubSeq(s, i + Len(old), Len(s)), old, new)

\* s.count(c) for a one-character c.
count(s, c) == Cardinality({i \in 1..Len(s) : Char(s, i) = c})

\* sep.join(parts)
RECURSIVE join(_, _)
join(sep, parts) ==
    IF Len(parts) = 0 THEN ""
    ELSE IF Len(parts) = 1 THEN parts[1]
    ELSE parts[1] \o sep \o join(sep, Tail(parts))

\* The elements of a finite set of integers as an increasing list.
sorted(S) ==
    [k \in 1..Cardinality(S) |-> CHOOSE p \in S : Cardinality({q \in S : q < p}) = k - 1]

\* str(n) for an integer n >= 0
RECURSIVE str_int(_)
str_int(n) ==
    IF n < 10 THEN Char("0123456789", n + 1)
    ELSE str_int(n \div 10) \o Char("0123456789", (n % 10) + 1)

\* parts[-2:]
last_two(parts) == SubSeq(parts, Len(parts) - 1, Len(parts))

(***************************************************************************)
(* Module-level reference data (url_analyzer_simple.py lines 9-55)         *)
(***************************************************************************)
\* Popular domains frequently targeted by phishing attacks
POPULAR_DOMAINS ==
    <<
      "google.com", "facebook.com", "amazon.com", "netflix.com", "paypal.com", "apple.com",
      "microsoft.com", "github.com", "linkedin.com", "twitter.com", "instagram.com",
      "dropbox.com", "yahoo.com", "gmail.com", "outlook.com", "chase.com", "bankofamerica.com",
      "wellsfargo.com", "citibank.com", "usbank.com", "coinbase.com", "binance.com",
      "spotify.com", "adobe.com", "zoom.us", "slack.com", "ebay.com", "walmart.com",
      "target.com", "bestbuy.com", "uber.com", "lyft.com", "airbnb.com", "booking.com",
      "whatsapp.com", "telegram.org", "discord.com", "twitch.tv", "reddit.com", "steam.com",
      "steamcommunity.com", "office.com", "live.com", "icloud.com", "docusign.com", "dhl.com",
      "fedex.com", "ups.com", "usps.com", "americanexpress.com", "discover.com",
      "capitalone.com", "schwab.com", "fidelity.com", "vanguard.com", "robinhood.com",
      "venmo.com", "zelle.com"
    >>
\* Brand names to detect in subdomain/path impersonation
BRAND_NAMES ==
    <<
      "google", "facebook", "amazon", "netflix", "paypal", "apple", "microsoft", "github",
      "linkedin", "twitter", "instagram", "dropbox", "yahoo", "gmail", "outlook", "chase",
      "bankofamerica", "wellsfargo", "citibank", "coinbase", "binance", "spotify", "adobe",
      "zoom", "slack", "ebay", "walmart", "uber", "airbnb", "whatsapp", "telegram", "discord",
      "twitch", "reddit", "steam", "office", "icloud", "docusign", "dhl", "fedex", "ups",
      "usps", "amex", "capitalone", "schwab", "fidelity", "vanguard", "robinhood", "venmo",
      "zelle"
    >>
\* The dict literal CONFUSABLE_CHARS as its <<key, value>> items in source order;
\* a key is the tuple of the code points of the key string as the file spells it
\* (for instance the first key is the two characters U+00D0 U+00B0).
CONFUSABLE_CHARS ==
    <<
      <<<<208, 176>>, "a">>, <<<<208, 181>>, "e">>, <<<<208, 190>>, "o">>,
      <<<<209, 8364>>, "p">>, <<<<209>>, "c">>, <<<<209, 402>>, "y">>, <<<<209, 8230>>, "x">>,
      <<<<209, 8211>>, "i">>, <<<<209, 732>>, "j">>, <<<<209, 8226>>, "s">>, <<<<212>>, "d">>,
      <<<<212, 8250>>, "q">>, <<<<212>>, "w">>, <<<<201, 161>>, "g">>, <<<<202, 8364>>, "r">>,
      <<<<201, 180>>, "n">>, <<<<225, 180>>, "m">>, <<<<225, 180, 8249>>, "k">>,
      <<<<225, 180, 160>>, "v">>, <<<<225, 180, 162>>, "z">>, <<<<209, 338>>, "b">>,
      <<<<210>>, "k">>, <<<<201, 8216>>, "a">>, <<<<206, 181>>, "e">>, <<<<206, 177>>, "a">>,
      <<<<206, 178>>, "b">>, <<<<206, 179>>, "y">>, <<<<206, 189>>, "v">>,
      <<<<206, 191>>, "o">>, <<<<207>>, "p">>, <<<<207, 8222>>, "t">>, <<<<207, 8230>>, "u">>,
      <<<<207, 8225>>, "x">>, <<<<207, 8240>>, "w">>, <<<<48>>, "o">>, <<<<49>>, "l">>,
      <<<<33>>, "i">>, <<<<36>>, "s">>, <<<<51>>, "e">>, <<<<52>>, "a">>, <<<<53>>, "s">>,
      <<<<56>>, "b">>, <<<<64>>, "a">>, <<<<55>>, "t">>, <<<<57>>, "g">>, <<<<50>>, "z">>,
      <<<<196, 177>>, "i">>, <<<<201, 169>>, "i">>, <<<<197, 8218>>, "l">>,
      <<<<201, 171>>, "l">>, <<<<202, 376>>, "l">>, <<<<225, 185, 402>>, "m">>,
      <<<<225, 185, 8225>>, "n">>, <<<<225, 185, 8230>>, "n">>, <<<<225, 185, 8250>>, "r">>,
      <<<<225, 185, 163>>, "s">>, <<<<225, 185, 173>>, "t">>, <<<<225, 185, 191>>, "v">>,
      <<<<225, 186, 8240>>, "w">>, <<<<225, 186>>, "y">>, <<<<225, 186, 8220>>, "z">>,
      <<<<225, 184, 402>>, "b">>, <<<<225, 184, 8249>>, "d">>, <<<<225, 184, 376>>, "f">>,
      <<<<225, 184, 163>>, "h">>, <<<<225, 185>>, "m">>, <<<<225, 185, 8212>>, "p">>,
      <<<<225, 185, 161>>, "s">>, <<<<225, 185, 171>>, "t">>, <<<<225, 186, 8225>>, "w">>,
      <<<<225, 186, 8249>>, "x">>, <<<<225, 186>>, "y">>
    >>
(***************************************************************************)
(* Python None, dict lookup                                                *)
(***************************************************************************)
None == [none |-> TRUE]

\* A str held where None may be held too (matched_brand, deceptive_pattern)
Str(s) == [str |-> s]

\* key in d, for a dict given by its items
dict_has(items, key) == \E i \in 1..Len(items) : items[i][1] = key

\* d[key]: of the items of a dict literal that share a key the last one counts
dict_get(items, key) ==
    LET k == CHOOSE i \in 1..Len(items) :
                    /\ items[i][1] = key
                    /\ \A j \in (i + 1)..Len(items) : items[j][1] # key
    IN  items[k][2]

(***************************************************************************)
(* URLAnalyzer.__init__: the analyzer object.  popular_domains and         *)
(* brand_names refer to the module-level lists; confusable_chars is the    *)
(* module-level dict the methods read.                                     *)
(***************************************************************************)
suspicious_keywords_init ==
    <<
      "secure", "account", "login", "verify", "banking", "update", "confirm", "ebay", "paypal",
      "amazon", "netflix", "credit", "card", "password", "suspended", "blocked", "urgent",
      "immediate", "action", "required", "signin", "sign-in", "authenticate", "wallet",
      "recovery", "unlock"
    >>
suspicious_tlds_init ==
    <<
      ".tk", ".ml", ".ga", ".cf", ".info", ".biz", ".work", ".click", ".download", ".win",
      ".review", ".top", ".loan", ".trade", ".zip", ".mov", ".xyz", ".icu", ".buzz", ".site",
      ".online", ".live"
    >>
URLAnalyzer_init ==
    [ suspicious_keywords |-> suspicious_keywords_init,
      suspicious_tlds     |-> suspicious_tlds_init,
      popular_domains     |-> POPULAR_DOMAINS,
      brand_names         |-> BRAND_NAMES,
      confusable_chars    |-> CONFUSABLE_CHARS ]

(***************************************************************************)
(* _calculate_levenshtein_distance                                         *)
(***************************************************************************)
\* list(range(lo, hi + 1))
RECURSIVE range(_, _)
range(lo, hi) ==
    IF lo > hi THEN <<>>
    ELSE IF lo = hi THEN <<lo>>
    ELSE range(lo, (lo + hi) \div 2) \o range((lo + hi) \div 2 + 1, hi)

\* Variant of Min3 that leaves out its third argument.
Min3_first_two(a, b, c) == Min(a, b)

Min3(a, b, c) == Min(a, Min(b, c))

\* The inner loop "for j, c2 in enumerate(s2)" for one character c1 of s1, run
\* until current_row has more than hi entries after its first.  current_row
\* holds the entries appended so far, so the 1-based j is its length, and
\* previous_row[j] here is previous_row[j - 1] of the code.  (The iterations
\* are run in order, in two halves, so that the evaluation stays shallow.)
RECURSIVE lev_inner(_, _, _, _, _)
lev_inner(c1, s2, previous_row, hi, current_row) ==
    LET j == Len(current_row) IN
    IF j > hi THEN current_row
    ELSE IF j = hi
    THEN LET insertions    == previous_row[j + 1] + 1
             deletions     == current_row[j] + 1
             substitutions == previous_row[j] + (IF c1 # Char(s2, j) THEN 1 ELSE 0)
         IN  Append(current_row, Min3(insertions, deletions, substitutions))
    ELSE lev_inner(c1, s2, previous_row, hi,
                   lev_inner(c1, s2, previous_row, (j + hi) \div 2, current_row))

\* The outer loop "for i, c1 in enumerate(s1)", run in order up to character
\* hi of s1 and started with previous_row; returns the last row computed.
\* A row starts with the number of characters of s1 it accounts for
\* ("current_row = [i + 1]", and 0 in range(len(s2) + 1)), so the 1-based
\* position of the next character is previous_row[1] + 1.
RECURSIVE lev_outer(_, _, _, _)
lev_outer(s1, s2, hi, previous_row) ==
    LET i == previous_row[1] + 1 IN
    IF i > hi THEN previous_row
    ELSE IF i = hi THEN lev_inner(Char(s1, i), s2, previous_row, Len(s2), <<i>>)
    ELSE lev_outer(s1, s2, hi, lev_outer(s1, s2, (i + hi) \div 2, previous_row))

RECURSIVE _calculate_levenshtein_distance(_, _)
_calculate_levenshtein_distance(s1, s2) ==
    IF Len(s1) < Len(s2) THEN _calculate_levenshtein_distance(s2, s1)
    ELSE IF Len(s2) = 0 THEN Len(s1)
    ELSE LET previous_row == lev_outer(s1, s2, Len(s1), range(0, Len(s2)))
         IN  previous_row[Len(previous_row)]

(***************************************************************************)
(* _normalize_confusables                                                  *)
(***************************************************************************)
normalize_char(self, char) ==
    IF dict_has(self.confusable_chars, <<ord(char)>>)
    THEN dict_get(self.confusable_chars, <<ord(char)>>)
    ELSE char

\* "for char in text: normalized.append(...)" and the final join
RECURSIVE normalize_loop(_, _)
normalize_loop(self, text) ==
    IF text = "" THEN ""
    ELSE IF Len(text) = 1 THEN normalize_char(self, text)
    ELSE normalize_loop(self, SubSeq(text, 1, Len(text) \div 2))
            \o normalize_loop(self, SubSeq(text, Len(text) \div 2 + 1, Len(text)))

_normalize_confusables(self, text) == normalize_loop(self, lower(text))

(***************************************************************************)
(* _identify_typosquat_type                                                *)
(***************************************************************************)
\* diff_positions, as the increasing sequence of the 1-based positions that differ
diff_positions(typo_domain, real_domain) ==
    LET n == Min(Len(typo_domain), Len(real_domain))
    IN  sorted({i \in 1..n : Char(typo_domain, i) # Char(real_domain, i)})

\* Variant of _identify_typosquat_type that does not compare the characters
\* at the two differing positions.
_identify_typosquat_type_adjacent_only(typo_domain, real_domain) ==
    IF Len(typo_domain) > Len(real_domain) THEN "character_insertion"
    ELSE IF Len(typo_domain) < Len(real_domain) THEN "character_omission"
    ELSE LET d == diff_positions(typo_domain, real_domain) IN
         IF Len(d) = 2 /\ (d[1] - d[2] = 1 \/ d[2] - d[1] = 1)
         THEN "character_transposition"
         ELSE "character_substitution"

_identify_typosquat_type(typo_domain, real_domain) ==
    IF Len(typo_domain) > Len(real_domain) THEN "character_insertion"
    ELSE IF Len(typo_domain) < Len(real_domain) THEN "character_omission"
    ELSE LET d == diff_positions(typo_domain, real_domain) IN
         IF /\ Len(d) = 2
            /\ (d[1] - d[2] = 1 \/ d[2] - d[1] = 1)
            /\ Char(typo_domain, d[1]) = Char(real_domain, d[2])
            /\ Char(typo_domain, d[2]) = Char(real_domain, d[1])
         THEN "character_transposition"
         ELSE "character_substitution"

(***************************************************************************)
(* _detect_typosquatting                                                   *)
(***************************************************************************)
\* float('inf'): greater than every distance
Infinity == 1000000

\* Variant of typosquat_step that also replaces the match at an equal distance.
typosquat_step_last_on_ties(self, domain, domain_name, i, st) ==
    LET popular      == self.popular_domains[i]
        popular_name == split(popular, ".")[1]
        distance     == _calculate_levenshtein_distance(domain_name, popular_name)
    IN  IF domain = popular
        THEN [returned |-> TRUE, best_match |-> None, min_distance |-> st.min_distance]
        ELSE IF distance <= 2 /\ distance > 0 /\ distance <= st.min_distance
        THEN [ returned     |-> FALSE,
               best_match   |-> [ target_domain |-> popular,
                                  distance      |-> distance,
                                  type |-> _identify_typosquat_type(domain_name, popular_name) ],
               min_distance |-> distance ]
        ELSE st

\* Variant of typosquat_step that also keeps a match at distance 0.
typosquat_step_zero_kept(self, domain, domain_name, i, st) ==
    LET popular      == self.popular_domains[i]
        popular_name == split(popular, ".")[1]
        distance     == _calculate_levenshtein_distance(domain_name, popular_name)
    IN  IF domain = popular
        THEN [returned |-> TRUE, best_match |-> None, min_distance |-> st.min_distance]
        ELSE IF distance <= 2 /\ distance < st.min_distance
        THEN [ returned     |-> FALSE,
               best_match   |-> [ target_domain |-> popular,
                                  distance      |-> distance,
                                  type |-> _identify_typosquat_type(domain_name, popular_name) ],
               min_distance |-> distance ]
        ELSE st

\* Variant of typosquat_step that accepts a distance of up to 3.
typosquat_step_distance_3(self, domain, domain_name, i, st) ==
    LET popular      == self.popular_domains[i]
        popular_name == split(popular, ".")[1]
        distance     == _calculate_levenshtein_distance(domain_name, popular_name)
    IN  IF domain = popular
        THEN [returned |-> TRUE, best_match |-> None, min_distance |-> st.min_distance]
        ELSE IF distance <= 3 /\ distance > 0 /\ distance < st.min_distance
        THEN [ returned     |-> FALSE,
               best_match   |-> [ target_domain |-> popular,
                                  distance      |-> distance,
                                  type |-> _identify_typosquat_type(domain_name, popular_name) ],
               min_distance |-> distance ]
        ELSE st

\* Variant of typosquat_step without the return on "domain == popular".
typosquat_step_no_exemption(self, domain, domain_name, i, st) ==
    LET popular      == self.popular_domains[i]
        popular_name == split(popular, ".")[1]
        distance     == _calculate_levenshtein_distance(domain_name, popular_name)
    IN  IF distance <= 2 /\ distance > 0 /\ distance < st.min_distance
        THEN [ returned     |-> FALSE,
               best_match   |-> [ target_domain |-> popular,
                                  distance      |-> distance,
                                  type |-> _identify_typosquat_type(domain_name, popular_name) ],
               min_distance |-> distance ]
        ELSE st

\* One iteration of the first loop, for entry i of self.popular_domains.
\* st is the loop's state: returned (the early "return None" was taken),
\* best_match and min_distance.
typosquat_step(self, domain, domain_name, i, st) ==
    LET popular      == self.popular_domains[i]
        popular_name == split(popular, ".")[1]
        distance     == _calculate_levenshtein_distance(domain_name, popular_name)
    IN  IF domain = popular
        THEN [returned |-> TRUE, best_match |-> None, min_distance |-> st.min_distance]
        ELSE IF distance <= 2 /\ distance > 0 /\ distance < st.min_distance
        THEN [ returned     |-> FALSE,
               best_match   |-> [ target_domain |-> popular,
                                  distance      |-> distance,
                                  type |-> _identify_typosquat_type(domain_name, popular_name) ],
               min_distance |-> distance ]
        ELSE st

\* The first loop "for popular in self.popular_domains" over entries lo..hi
\* in list order, started in state st; nothing runs after the early return.
\* (The range is split in halves so that the evaluation stays shallow.)
RECURSIVE typosquat_loop(_, _, _, _, _, _)
typosquat_loop(self, domain, domain_name, lo, hi, st) ==
    IF lo > hi \/ st.returned THEN st
    ELSE IF lo = hi THEN typosquat_step(self, domain, domain_name, lo, st)
    ELSE LET mid == (lo + hi) \div 2 IN
         typosquat_loop(self, domain, domain_name, mid + 1, hi,
                        typosquat_loop(self, domain, domain_name, lo, mid, st))

\* Variant of normalized_match: the normalized name is compared with nothing.
normalized_match_never(self, normalized) == 0

\* The first popular domain whose bare name equals the normalized name: its
\* index in self.popular_domains, 0 when there is none (the loop of
\* _detect_typosquatting that returns at the first hit, and the loop of
\* _detect_homograph_attack that breaks at it).
normalized_match(self, normalized) ==
    LET hits == {i \in 1..Len(self.popular_domains) :
                    split(self.popular_domains[i], ".")[1] = normalized}
    IN  IF hits = {} THEN 0 ELSE CHOOSE i \in hits : \A j \in hits : i <= j

\* Variant of _detect_typosquatting without the check of the normalized name.
_detect_typosquatting_distance_only(self, domain) ==
    LET domain_name == IF contains(domain, ".") THEN split(domain, ".")[1] ELSE domain
        first_loop == typosquat_loop(self, domain, domain_name, 1, Len(self.popular_domains),
                          [returned |-> FALSE, best_match |-> None, min_distance |-> Infinity])
    IN  IF first_loop.returned THEN None ELSE first_loop.best_match

_detect_typosquatting(self, domain) ==
    LET domain_name == IF contains(domain, ".") THEN split(domain, ".")[1] ELSE domain
        first_loop == typosquat_loop(self, domain, domain_name, 1, Len(self.popular_domains),
                          [returned |-> FALSE, best_match |-> None, min_distance |-> Infinity])
        normalized_domain == _normalize_confusables(self, domain_name)
        hit         == normalized_match(self, normalized_domain)
    IN  IF first_loop.returned THEN None
        ELSE IF normalized_domain # domain_name /\ hit > 0
        THEN [ target_domain |-> self.popular_domains[hit],
               distance      |-> 0,
               type          |-> "character_substitution" ]
        ELSE first_loop.best_match

(***************************************************************************)
(* _has_ip_address, _check_keywords, _check_suspicious_tld                 *)
(***************************************************************************)
\* re.match(r'^(\d{1,3}\.){3}\d{1,3}(:\d+)?$', text): four dot-separated groups
\* of one to three digits, then optionally a ':' and one or more digits.
all_digits(text) == \A k \in 1..Len(text) : isdigit(Char(text, k))

match_ip_pattern(text) ==
    LET host == split(text, ":")[1]
        quad == split(host, ".")
    IN  /\ Len(quad) = 4
        /\ \A g \in 1..4 : Len(quad[g]) \in 1..3 /\ all_digits(quad[g])
        /\ \/ Len(text) = Len(host)
           \/ LET port == SubSeq(text, Len(host) + 2, Len(text))
              IN  Len(port) >= 1 /\ all_digits(port)

_has_ip_address(domain) == match_ip_pattern(split(domain, ":")[1])

_check_keywords(self, url) ==
    LET text == lower(url) IN
    SelectSeq(self.suspicious_keywords, LAMBDA kw : contains(text, kw))

_check_suspicious_tld(self, domain) ==
    \E k \in 1..Len(self.suspicious_tlds) : endswith(domain, self.suspicious_tlds[k])

(***************************************************************************)
(* _has_mixed_scripts, _detect_homograph_attack                            *)
(***************************************************************************)
\* re.search of a character class given by its code point ranges
has_char_in(text, lo, hi) == \E k \in 1..Len(text) : ord(Char(text, k)) \in lo..hi

_has_mixed_scripts(text) ==
    LET has_latin    == has_char_in(text, 65, 90) \/ has_char_in(text, 97, 122)
        has_cyrillic == has_char_in(text, 1024, 1279)
        has_greek    == has_char_in(text, 880, 1023)
        scripts_found == (IF has_latin THEN 1 ELSE 0) + (IF has_cyrillic THEN 1 ELSE 0)
                            + (IF has_greek THEN 1 ELSE 0)
    IN  scripts_found > 1

\* Variant of _detect_homograph_attack that returns a finding only when a
\* brand matches or the scripts are mixed.
_detect_homograph_attack_severe_only(self, domain) ==
    LET found == sorted({i \in 1..Len(domain) :
                            dict_has(self.confusable_chars, <<ord(Char(domain, i))>>)})
        confusable_found ==
            [k \in 1..Len(found) |->
                [ position   |-> found[k] - 1,
                  original   |-> Char(domain, found[k]),
                  looks_like |-> dict_get(self.confusable_chars, <<ord(Char(domain, found[k]))>>) ]]
        normalized == _normalize_confusables(self, split(domain, ".")[1])
        hit        == normalized_match(self, normalized)
    IN  IF Len(found) > 0 /\ (hit > 0 \/ _has_mixed_scripts(domain))
        THEN [ confusable_chars  |-> confusable_found,
               normalized_domain |-> normalized,
               matched_brand     |-> IF hit > 0 THEN Str(self.popular_domains[hit]) ELSE None,
               is_mixed_script   |-> _has_mixed_scripts(domain) ]
        ELSE None

_detect_homograph_attack(self, domain) ==
    LET found == sorted({i \in 1..Len(domain) :
                            dict_has(self.confusable_chars, <<ord(Char(domain, i))>>)})
        confusable_found ==
            [k \in 1..Len(found) |->
                [ position   |-> found[k] - 1,
                  original   |-> Char(domain, found[k]),
                  looks_like |-> dict_get(self.confusable_chars, <<ord(Char(domain, found[k]))>>) ]]
        normalized == _normalize_confusables(self, split(domain, ".")[1])
        hit        == normalized_match(self, normalized)
    IN  IF Len(found) > 0
        THEN [ confusable_chars  |-> confusable_found,
               normalized_domain |-> normalized,
               matched_brand     |-> IF hit > 0 THEN Str(self.popular_domains[hit]) ELSE None,
               is_mixed_script   |-> _has_mixed_scripts(domain) ]
        ELSE None

(***************************************************************************)
(* _detect_brand_impersonation                                             *)
(***************************************************************************)
\* re.search(r'(w1|w2|...)[-.]', text)
search_word_then_separator(text, words) ==
    \E w \in words : \E sep \in {"-", "."} : contains(text, w \o sep)

\* re.search(r'[-.]com[-.]', text)
search_fake_tld(text) ==
    \E a \in {"-", "."} : \E b \in {"-", "."} : contains(text, a \o "com" \o b)

\* re.search(r'(signin|sign-in|log-in|login)\.(php|html|asp)', text)
search_login_page(text) ==
    \E w \in {"signin", "sign-in", "log-in", "login"} :
        \E ext \in {"php", "html", "asp"} : contains(text, w \o "." \o ext)

\* Variant of first_deceptive_pattern that goes through the patterns in the
\* opposite order.
first_deceptive_pattern_reversed(url) ==
    LET text == lower(url) IN
    IF contains(text, "@") THEN Str("at_symbol_redirect")
    ELSE IF search_login_page(text) THEN Str("login_page_pattern")
    ELSE IF search_fake_tld(text) THEN Str("fake_tld_in_subdomain")
    ELSE IF search_word_then_separator(text, {"secure", "login", "account", "verify", "update"})
    THEN Str("security_keyword_prefix")
    ELSE None

\* Variant of first_deceptive_pattern that tries the login page pattern first.
first_deceptive_pattern_login_first(url) ==
    LET text == lower(url) IN
    IF search_login_page(text) THEN Str("login_page_pattern")
    ELSE IF search_word_then_separator(text, {"secure", "login", "account", "verify", "update"})
    THEN Str("security_keyword_prefix")
    ELSE IF search_fake_tld(text) THEN Str("fake_tld_in_subdomain")
    ELSE IF contains(text, "@") THEN Str("at_symbol_redirect")
    ELSE None

\* The loop over deceptive_patterns: the type of the first pattern that matches.
first_deceptive_pattern(url) ==
    LET text == lower(url) IN
    IF search_word_then_separator(text, {"secure", "login", "account", "verify", "update"})
    THEN Str("security_keyword_prefix")
    ELSE IF search_fake_tld(text) THEN Str("fake_tld_in_subdomain")
    ELSE IF search_login_page(text) THEN Str("login_page_pattern")
    ELSE IF contains(text, "@") THEN Str("at_symbol_redirect")
    ELSE None

_detect_brand_impersonation(self, url, domain, path) ==
    LET domain_parts == split(domain, ".")
        nb           == Len(self.brand_names)
        subdomains   == IF Len(domain_parts) > 2
                        THEN SubSeq(domain_parts, 1, Len(domain_parts) - 2) ELSE <<>>
        \* the nested loops, subdomain outer and brand inner: hit (s, b) is
        \* numbered (s - 1) * nb + b, the order in which the loops reach it
        sub_hits     == sorted({(s - 1) * nb + b : <<s, b>> \in
                            {sb \in (1..Len(subdomains)) \X (1..nb) :
                                contains(lower(subdomains[sb[1]]), self.brand_names[sb[2]])}})
        brand_in_subdomain ==
            [k \in 1..Len(sub_hits) |->
                [ brand     |-> self.brand_names[((sub_hits[k] - 1) % nb) + 1],
                  subdomain |-> subdomains[((sub_hits[k] - 1) \div nb) + 1] ]]
        base_domain  == IF Len(domain_parts) >= 2 THEN join(".", last_two(domain_parts))
                        ELSE domain
        is_legitimate == \E k \in 1..Len(self.popular_domains) :
                            self.popular_domains[k] = base_domain
        \* per brand b first the path test (numbered 2b - 1), then the
        \* domain-fragment test (numbered 2b)
        path_hits    ==
            IF is_legitimate THEN <<>>
            ELSE sorted(
                {2 * b - 1 : b \in {c \in 1..nb : contains(lower(path), self.brand_names[c])}}
                \cup
                {2 * b : b \in {c \in 1..nb :
                    /\ contains(lower(base_domain), self.brand_names[c])
                    /\ ~contains(split(base_domain, ".")[1], self.brand_names[c])}})
        brand_in_path ==
            [k \in 1..Len(path_hits) |->
                [ brand   |-> self.brand_names[(path_hits[k] + 1) \div 2],
                  context |-> IF path_hits[k] % 2 = 1 THEN "path" ELSE "domain_fragment" ]]
        deceptive_pattern == first_deceptive_pattern(url)
    IN  IF Len(sub_hits) = 0 /\ Len(path_hits) = 0 /\ deceptive_pattern = None
        THEN None
        ELSE [ brand_in_subdomain |-> brand_in_subdomain,
               brand_in_path      |-> brand_in_path,
               deceptive_pattern  |-> deceptive_pattern ]

(***************************************************************************)
(* _calculate_risk_score                                                   *)
(***************************************************************************)
\* One "score += w; risk_factors.append(f)" when cond holds, nothing otherwise.
add_if(cond, weight, factor) ==
    IF cond THEN <<[weight |-> weight, factor |-> factor]>> ELSE <<>>

\* Variant of length_steps with both weights doubled.
length_steps_heavy(features) ==
    IF features.url_length > 100
    THEN add_if(TRUE, 30, "Very long URL (>100 chars)")
    ELSE add_if(features.url_length > 75, 16, "Long URL (>75 chars)")

\* Variant of length_steps with the two weights exchanged.
length_steps_swapped(features) ==
    IF features.url_length > 100
    THEN add_if(TRUE, 8, "Very long URL (>100 chars)")
    ELSE add_if(features.url_length > 75, 15, "Long URL (>75 chars)")

\* "if features['url_length'] > 100: ... elif features['url_length'] > 75: ..."
length_steps(features) ==
    IF features.url_length > 100
    THEN add_if(TRUE, 15, "Very long URL (>100 chars)")
    ELSE add_if(features.url_length > 75, 8, "Long URL (>75 chars)")

\* Variant of ip_steps with a lower weight.
ip_steps_low(features) ==
    add_if(features.has_ip_address, 25, "IP address used instead of domain name")

\* "if features['has_ip_address']: ..."
ip_steps(features) ==
    add_if(features.has_ip_address, 30, "IP address used instead of domain name")

\* Variant of typosquat_steps that gives the higher weight up to distance 2.
typosquat_steps_within_two(features) ==
    LET typo == features.typosquatting_info IN
    IF typo = None THEN <<>>
    ELSE IF typo.distance <= 2
    THEN add_if(TRUE, 40, "TYPOSQUATTING: Very similar to " \o typo.target_domain
                            \o " (" \o typo.type \o ")")
    ELSE add_if(TRUE, 30, "TYPOSQUATTING: Similar to " \o typo.target_domain
                            \o " (" \o typo.type \o ")")

\* Variant of typosquat_steps with one weight for every distance.
typosquat_steps_flat(features) ==
    LET typo == features.typosquatting_info IN
    IF typo = None THEN <<>>
    ELSE add_if(TRUE, 40, "TYPOSQUATTING: Very similar to " \o typo.target_domain
                            \o " (" \o typo.type \o ")")

\* "if features['typosquatting_info']: ..."
typosquat_steps(features) ==
    LET typo == features.typosquatting_info IN
    IF typo = None THEN <<>>
    ELSE IF typo.distance <= 1
    THEN add_if(TRUE, 40, "TYPOSQUATTING: Very similar to " \o typo.target_domain
                            \o " (" \o typo.type \o ")")
    ELSE add_if(TRUE, 30, "TYPOSQUATTING: Similar to " \o typo.target_domain
                            \o " (" \o typo.type \o ")")

\* Variant of homograph_steps that weighs a finding only when it matched a
\* brand.
homograph_steps_brand_only(features) ==
    LET homo == features.homograph_info IN
    IF homo = None THEN <<>>
    ELSE add_if(homo.matched_brand # None, 50,
                "HOMOGRAPH ATTACK: Uses lookalike characters to impersonate "
                    \o (IF homo.matched_brand # None THEN homo.matched_brand.str ELSE ""))

\* "if features['homograph_info']: ..."
homograph_steps(features) ==
    LET homo == features.homograph_info IN
    IF homo = None THEN <<>>
    ELSE IF homo.matched_brand # None
    THEN add_if(TRUE, 50, "HOMOGRAPH ATTACK: Uses lookalike characters to impersonate "
                            \o homo.matched_brand.str)
    ELSE IF homo.is_mixed_script
    THEN add_if(TRUE, 35, "Mixed Unicode scripts detected (potential homograph attack)")
    ELSE add_if(TRUE, 25, "Contains confusable Unicode characters")

\* "if features['brand_impersonation_info']: ..."
brand_steps(features) ==
    LET imp == features.brand_impersonation_info
        brands(entries) == join(", ", [k \in 1..Len(entries) |-> entries[k].brand])
    IN  IF imp = None THEN <<>>
        ELSE add_if(Len(imp.brand_in_subdomain) > 0, 35,
                    "BRAND IMPERSONATION: '" \o brands(imp.brand_in_subdomain) \o "' in subdomain")
             \o add_if(Len(imp.brand_in_path) > 0, 20,
                    "Brand name in URL path: " \o brands(imp.brand_in_path))
             \o (IF imp.deceptive_pattern = None THEN <<>>
                 ELSE add_if(TRUE, 15, "Deceptive URL pattern: " \o imp.deceptive_pattern.str))

\* The score += / risk_factors.append steps that run on the given features, in
\* the order in which the function's if-statements run them.
risk_steps(features) ==
    LET keywords == features.suspicious_keywords IN
    \* URL length
    length_steps(features)
    \* HTTPS
    \o add_if(~features.has_https, 10, "No HTTPS encryption")
    \* IP address in URL
    \o ip_steps(features)
    \* Suspicious characters
    \o add_if(features.has_at_symbol, 25, "Contains @ symbol (potential redirect)")
    \o add_if(features.has_redirect, 15, "Contains redirect pattern (//)")
    \* Suspicious domain characteristics
    \o add_if(features.has_hyphen, 5, "Hyphen in domain")
    \o add_if(features.has_underscore, 8, "Underscore in domain")
    \* Suspicious path patterns
    \o add_if(features.has_dot_in_path \/ features.has_double_slash, 10,
              "Suspicious path pattern")
    \* Suspicious keywords
    \o add_if(Len(keywords) > 0, Min(20, Len(keywords) * 4),
              "Suspicious keywords: " \o join(", ", SubSeq(keywords, 1, Min(3, Len(keywords)))))
    \* Suspicious TLD
    \o add_if(features.suspicious_tld, 15, "Suspicious top-level domain")
    \* Multiple subdomains
    \o (IF features.subdomain_count > 3
        THEN add_if(TRUE, 15, "Many subdomains (" \o str_int(features.subdomain_count) \o ")")
        ELSE add_if(features.subdomain_count > 2, 8,
                    "Multiple subdomains (" \o str_int(features.subdomain_count) \o ")"))
    \* Port in URL
    \o add_if(features.has_port, 10, "Non-standard port specified")
    \* Punycode domain
    \o add_if(features.is_punycode, 20, "Internationalized domain name (punycode)")
    \* Typosquatting, homograph attack and brand impersonation detection
    \o typosquat_steps(features)
    \o homograph_steps(features)
    \o brand_steps(features)

\* score after all the steps: the sum of their weights
RECURSIVE sum_weights(_)
sum_weights(steps) ==
    IF Len(steps) = 0 THEN 0 ELSE steps[1].weight + sum_weights(Tail(steps))

\* Variant of cap_score: the sum is returned as it is.
cap_score_unclamped(score) == score

\* "final_score = min(1.0, score)"
cap_score(score) == Min(100, score)

\* Variant of _calculate_risk_score: the factors are listed last step first.
_calculate_risk_score_reversed(features) ==
    LET steps == risk_steps(features) IN
    << cap_score(sum_weights(steps)),
       [k \in 1..Len(steps) |-> steps[Len(steps) + 1 - k].factor] >>

\* Returns <<final_score, risk_factors>>.
_calculate_risk_score(features) ==
    LET steps == risk_steps(features) IN
    << cap_score(sum_weights(steps)), [k \in 1..Len(steps) |-> steps[k].factor] >>

(***************************************************************************)
(* urllib.parse.urlparse, as far as analyze_url uses it (scheme, netloc,   *)
(* path) on the strings of the model's alphabet                            *)
(***************************************************************************)
\* The first position at or after which one of the characters of delims
\* stands in s, Len(s) + 1 when none does.
first_of(s, delims) ==
    LET at == {k \in 1..Len(s) : \E d \in 1..Len(delims) : Char(s, k) = Char(delims, d)}
    IN  IF at = {} THEN Len(s) + 1 ELSE CHOOSE k \in at : \A m \in at : k <= m

is_scheme_char(c) ==
    \/ ord(c) \in 65..90 \/ ord(c) \in 97..122 \/ isdigit(c) \/ c \in {"+", "-", "."}

urlparse(url) ==
    LET colon      == find(url, ":")
        has_scheme == /\ colon > 1
                      /\ ord(Char(url, 1)) \in (65..90) \cup (97..122)
                      /\ \A k \in 1..(colon - 1) : is_scheme_char(Char(url, k))
        scheme     == IF has_scheme THEN lower(SubSeq(url, 1, colon - 1)) ELSE ""
        rest       == IF has_scheme THEN SubSeq(url, colon + 1, Len(url)) ELSE url
        has_netloc == startswith(rest, "//")
        after      == IF has_netloc THEN SubSeq(rest, 3, Len(rest)) ELSE rest
        cut        == IF has_netloc THEN first_of(after, "/?#") ELSE 1
        netloc     == SubSeq(after, 1, cut - 1)
        tail       == SubSeq(after, cut, Len(after))
        no_frag    == SubSeq(tail, 1, first_of(tail, "#") - 1)
        path       == SubSeq(no_frag, 1, first_of(no_frag, "?") - 1)
    IN  IF (contains(netloc, "[") /\ ~contains(netloc, "]"))
           \/ (contains(netloc, "]") /\ ~contains(netloc, "["))
        THEN [raised |-> TRUE, error |-> "Invalid IPv6 URL"]
        ELSE [raised |-> FALSE, scheme |-> scheme, netloc |-> netloc, path |-> path]

(***************************************************************************)
(* analyze_url                                                             *)
(***************************************************************************)
\* "base_domain = '.'.join(domain_parts[-2:])" if there are two parts or more,
\* else the domain
base_domain_of(domain_parts, domain) ==
    IF Len(domain_parts) >= 2 THEN join(".", last_two(domain_parts)) ELSE domain

\* The result dictionary as it is before the risk score is calculated: the
\* basic features, is_punycode and the findings of the three detectors.
result_features(self, url, parsed, domain, path, base_domain) ==
    [ url              |-> url,
      domain           |-> domain,
      base_domain      |-> base_domain,
      url_length       |-> Len(url),
      has_https        |-> parsed.scheme = "https",
      has_ip_address   |-> _has_ip_address(domain),
      has_at_symbol    |-> contains(url, "@"),
      has_redirect     |-> contains(replace(url, parsed.scheme \o "://", ""), "//"),
      has_hyphen       |-> contains(domain, "-"),
      has_port         |-> /\ contains(domain, ":")
                           /\ ~endswith(domain, ":80")
                           /\ ~endswith(domain, ":443"),
      has_dot_in_path  |-> contains(path, "/."),
      has_underscore   |-> contains(domain, "_"),
      has_double_slash |-> contains(path, "//"),
      has_equals_sign  |-> contains(path, "="),
      has_ampersand    |-> contains(url, "&"),
      suspicious_keywords |-> _check_keywords(self, url),
      suspicious_tld   |-> _check_suspicious_tld(self, domain),
      subdomain_count  |-> IF contains(domain, ".") THEN count(domain, ".") - 1 ELSE 0,
      typosquatting_info       |-> _detect_typosquatting(self, base_domain),
      homograph_info           |-> _detect_homograph_attack(self, domain),
      brand_impersonation_info |-> _detect_brand_impersonation(self, url, domain, path),
      is_punycode      |-> contains(lower(domain), "xn--"),
      risk_score       |-> 0,
      risk_factors     |-> <<>> ]

\* "result['risk_score'], result['risk_factors'] = scored"
with_score(result, scored) ==
    [result EXCEPT !.risk_score = scored[1], !.risk_factors = scored[2]]

\* The result with the score and the factors calculated from it.
with_score_of(result) == with_score(result, _calculate_risk_score(result))

\* The try block after "parsed = urlparse(url)" returned parsed, domain and
\* path being parsed.netloc.lower() and parsed.path.lower().
analyze_parsed(self, url, parsed, domain, path) ==
    with_score_of(result_features(self, url, parsed, domain, path,
                                  base_domain_of(split(domain, "."), domain)))

\* The try block from "parsed = urlparse(url)" on, for the url after the
\* scheme was prepended: [raised |-> FALSE, value |-> the result dictionary],
\* or [raised |-> TRUE, error |-> str(e)] when a statement raised e.
try_parsed(self, url, parsed) ==
    IF parsed.raised THEN [raised |-> TRUE, error |-> parsed.error]
    ELSE [ raised |-> FALSE,
           value  |-> analyze_parsed(self, url, parsed, lower(parsed.netloc), lower(parsed.path)) ]

analyze_try(self, url) == try_parsed(self, url, urlparse(url))

\* Variant of prepend_scheme: a URL without scheme is taken as an https URL.
prepend_scheme_https(url) ==
    IF ~(startswith(url, "http://") \/ startswith(url, "https://"))
    THEN "https://" \o url ELSE url

\* Variant of prepend_scheme that leaves every string as it is.
prepend_scheme_never(url) == url

\* if not url.startswith(('http://', 'https://')): url = 'http://' + url
prepend_scheme(url) ==
    IF ~(startswith(url, "http://") \/ startswith(url, "https://"))
    THEN "http://" \o url ELSE url

\* Variant of analyze_url without the except clause: what the try block
\* raised leaves the method.
analyze_url_uncaught(self, url) ==
    LET outcome == analyze_try(self, prepend_scheme(url)) IN
    IF outcome.raised THEN outcome ELSE outcome.value

\* The except clause: the record {'error': str(e), 'url': url} when the try
\* block raised, else what the try block returned.
except_clause(url, outcome) ==
    IF outcome.raised THEN [error |-> outcome.error, url |-> url] ELSE outcome.value

\* The whole method.
analyze_url(self, url) ==
    except_clause(prepend_scheme(url), analyze_try(self, prepend_scheme(url)))

(***************************************************************************)
(* The inputs of the model: the URLs of the repository's own tests and     *)
(* demo (test_backend.py lines 82-94, url_analyzer_simple.py lines         *)
(* 522-548) and further strings that reach the cases the properties below  *)
(* are about, each also with its path padded by blocks of filler.          *)
(***************************************************************************)
MaxPadBlocks == 3

\* The number of calls of analyze_url that a behaviour makes.
MaxCalls == 2

PadBlock == 30

BaseUrls ==
    { "",
      "http://secure-login-bank.com/verify-account",
      "http://amaz0n.com/signin",
      "https://www.google.com/search",
      "http://paypa1.com/login",
      "http://gooogle.com",
      "http://microsft.com",
      "http://p" \o CYRILLIC_A \o "ypal.com",
      "http://paypal.com.malicious.site",
      "http://secure-amazon-login.com",
      "http://login.google.verify.com/account",
      "http://netflix-support.suspicious.tk",
      "https://www.google.com",
      "https://www.paypal.com/signin",
      "http://192.168.1.1/login",
      "https://192.168.1.1/login",
      "http://bit.ly/@paypal.com",
      "amaz0n.com",
      "https://www.ups.com",
      "http://g00g1e.com",
      "http://example.com",
      "http://googel.com",
      "http://amazon.net",
      "http://[x",
      "http://a.com/?u=http://b.com",
      "HTTPS://WWW.Google.com",
      "http://amaz0n.com",
      "http://user@xn--pypal.a_b.c.d.tk:8080//x.y",
      "http://paypal.secure-login.example.xyz:8080/a//b_c.php?account=1&verify=2",
      "https://paypal.com.account-update.login.secure.info/paypal/webscr",
      "https://www.paypal.com//a.b",
      "http://ups.net",
      "http://paypal.paypal.evil.com/paypal/paypal",
      "http://x.amazon/amazon",
      "http://example.com/signin.php",
      "http://example.com/login.php",
      "http://x1" \o CYRILLIC_A \o ".com",
      "http://6.6.6.6/x",
      "https://www.google.com//a.bxxxxxxxxxxxxxxxxxxxxxxxxxxxxxxxxxxxxxxxxxxxxxxxxxx" }

\* The URLs that are also analysed with a padded path.
PaddedUrls ==
    { "http://example.com/", "https://www.google.com/search", "http://amaz0n.com/signin" }

\* n characters of filler
RECURSIVE filler(_)
filler(n) ==
    IF n <= 0 THEN ""
    ELSE IF n = 1 THEN "x"
    ELSE filler(n \div 2) \o filler(n - n \div 2)

Inputs ==
    BaseUrls \cup {u \o filler(k * PadBlock) : u \in PaddedUrls, k \in 0..MaxPadBlocks}

(***************************************************************************)
(* State machine: one URLAnalyzer and the calls of analyze_url on it       *)
(***************************************************************************)
VARIABLES
    analyzer,     \* the URLAnalyzer object with the reference data it reads
    first_call,   \* the first call made on it: [url, result], None before any call
    last_call,    \* the latest call made on it: [url, result], None before any call
    calls         \* the number of calls made on it

vars == <<analyzer, first_call, last_call, calls>>

\* analyze_url on the analyzer as constructed, for every input: the pairs
\* <<u, analyze_url(u)>>.  (TLC evaluates this set once; a call on an unchanged
\* analyzer reads its result there.)
Analyzed == {<<u, analyze_url(URLAnalyzer_init, u)>> : u \in Inputs}

call_analyze_url(s, u) ==
    IF s = URLAnalyzer_init
    THEN (CHOOSE p \in Analyzed : p[1] = u)[2]
    ELSE analyze_url(s, u)

Init ==
    /\ analyzer = URLAnalyzer_init
    /\ first_call = None
    /\ last_call = None
    /\ calls = 0

\* Variant of AnalyzeUrl: the call also records the base domain it saw among
\* the popular domains of the analyzer.
AnalyzeUrl_learning(u) ==
    /\ calls < MaxCalls
    /\ calls' = calls + 1
    /\ last_call' = [url |-> u, result |-> call_analyze_url(analyzer, u)]
    /\ first_call' = IF first_call = None THEN last_call' ELSE first_call
    /\ analyzer' = IF "base_domain" \in DOMAIN last_call'.result
                   THEN [analyzer EXCEPT !.popular_domains =
                             Append(@, last_call'.result.base_domain)]
                   ELSE analyzer

\* analyzer.analyze_url(u): returns its result and leaves the analyzer as it was
AnalyzeUrl(u) ==
    /\ calls < MaxCalls
    /\ calls' = calls + 1
    /\ last_call' = [url |-> u, result |-> call_analyze_url(analyzer, u)]
    /\ first_call' = IF first_call = None THEN last_call' ELSE first_call
    /\ UNCHANGED analyzer

Next == \E u \in Inputs : AnalyzeUrl(u)

Spec == Init /\ [][Next]_vars

(***************************************************************************)
(* Properties.  Scores are in hundredths (risk_score 100 is 1.0).  Every   *)
(* call of a behaviour is the latest call of one of its states, so a       *)
(* property of every call is stated on last_call.                          *)
(***************************************************************************)
\* The keys of the dictionary that analyze_url returns from its try block.
ResultKeys ==
    { "url", "domain", "base_domain", "url_length", "has_https", "has_ip_address",
      "has_at_symbol", "has_redirect", "has_hyphen", "has_port", "has_dot_in_path",
      "has_underscore", "has_double_slash", "has_equals_sign", "has_ampersand",
      "suspicious_keywords", "suspicious_tld", "subdomain_count",
      "typosquatting_info", "homograph_info", "brand_impersonation_info",
      "is_punycode", "risk_score", "risk_factors" }

is_assessment(result) == DOMAIN result = ResultKeys

is_error_record(result) == DOMAIN result = {"error", "url"}

\* The latest call returned an assessment.
Assessed == last_call # None /\ is_assessment(last_call.result)

\* The bare name of a domain: "domain.split('.')[0]"
bare_name(domain) == split(domain, ".")[1]

\* C1: whenever analyze_url completes with an assessment, its risk_score is
\* at least 0 and at most 1.0, however many conditions add to the sum.
C1_ScoreInUnitInterval ==
    Assessed => last_call.result.risk_score >= 0 /\ last_call.result.risk_score <= 100

\* A call whose conditions add up to more than 1.0 and whose score is 1.0.
C1_Witness ==
    /\ Assessed
    /\ sum_weights(risk_steps(last_call.result)) > 100
    /\ last_call.result.risk_score = 100

\* C2: analyze_url lets no exception escape: every call returns either a full
\* assessment or the error record {error, url}, and a failure of the parsing
\* yields the error record.
C2_NoExceptionEscapes ==
    last_call # None =>
        /\ is_assessment(last_call.result) \/ is_error_record(last_call.result)
        /\ urlparse(prepend_scheme(last_call.url)).raised => is_error_record(last_call.result)

\* A call on an unparseable URL (an opening bracket without its closing one)
\* that returned the error record.
C2_Witness ==
    /\ last_call # None
    /\ urlparse(prepend_scheme(last_call.url)).raised
    /\ last_call.result = [error |-> "Invalid IPv6 URL", url |-> last_call.url]

C5_TrustedDomainExempt ==
    (/\ Assessed
     /\ \E i \in 1..Len(analyzer.popular_domains) :
            analyzer.popular_domains[i] = last_call.result.base_domain)
    => /\ last_call.result.typosquatting_info = None
       /\ typosquat_steps(last_call.result) = <<>>
       /\ \A k \in 1..Len(last_call.result.risk_factors) :
              ~startswith(last_call.result.risk_factors[k], "TYPOSQUATTING")
       /\ last_call.result.risk_score
              = cap_score(sum_weights(risk_steps(
                    [last_call.result EXCEPT !.typosquatting_info = None])))

\* A call on a URL of ups.com, whose name is one edit away from the name of
\* another popular domain (usps.com), with no typosquat finding.
C5_Witness ==
    /\ Assessed
    /\ last_call.result.base_domain = "ups.com"
    /\ _calculate_levenshtein_distance("ups", "usps") = 1
    /\ last_call.result.typosquatting_info = None

\* C6 as stated: for the candidate amaz0n.com the typosquat finding names
\* amazon.com with a substitution at edit distance 1, and the aggregator adds
\* the higher typosquat weight +0.40.
C6_Amaz0nAtDistanceOne ==
    (Assessed /\ last_call.result.base_domain = "amaz0n.com") =>
        /\ last_call.result.typosquatting_info
               = [ target_domain |-> "amazon.com", distance |-> 1,
                   type |-> "character_substitution" ]
        /\ typosquat_steps(last_call.result)
               = <<[ weight |-> 40,
                     factor |-> "TYPOSQUATTING: Very similar to amazon.com (character_substitution)" ]>>

\* C6, amended: for the candidate amaz0n.com the typosquat finding names
\* amazon.com with type character_substitution and distance 0 (the match of
\* the confusable-normalized name replaces the distance-1 match), and the
\* aggregator adds the higher typosquat weight +0.40.
C6_Amaz0nNormalizedMatch ==
    (Assessed /\ last_call.result.base_domain = "amaz0n.com") =>
        /\ last_call.result.typosquatting_info
               = [ target_domain |-> "amazon.com", distance |-> 0,
                   type |-> "character_substitution" ]
        /\ typosquat_steps(last_call.result)
               = <<[ weight |-> 40,
                     factor |-> "TYPOSQUATTING: Very similar to amazon.com (character_substitution)" ]>>
        /\ \E k \in 1..Len(last_call.result.risk_factors) :
               last_call.result.risk_factors[k]
                   = "TYPOSQUATTING: Very similar to amazon.com (character_substitution)"

\* A call on the candidate amaz0n.com itself, one substitution away from
\* amazon, with a typosquat finding.
C6_Witness ==
    /\ Assessed
    /\ last_call.url = "amaz0n.com"
    /\ _calculate_levenshtein_distance("amaz0n", "amazon") = 1
    /\ last_call.result.typosquatting_info # None
    /\ last_call.result.typosquatting_info.target_domain = "amazon.com"

\* The base domains of the inputs whose bare name is at Levenshtein distance 3
\* or more from the bare name of every popular domain.
FarBaseDomains ==
    { d \in {p[2].base_domain : p \in {q \in Analyzed : is_assessment(q[2])}} :
          \A i \in 1..Len(POPULAR_DOMAINS) :
              _calculate_levenshtein_distance(bare_name(d), bare_name(POPULAR_DOMAINS[i])) >= 3 }

\* C7 as stated: a candidate whose bare name is at distance 3 or more from the
\* bare name of every popular domain has no typosquat finding.
C7_FarMeansNoMatch ==
    (Assessed /\ last_call.result.base_domain \in FarBaseDomains) =>
        last_call.result.typosquatting_info = None

\* C7, amended: a candidate whose bare name is at distance 3 or more from the
\* bare name of every popular domain, and whose confusable-normalized bare
\* name equals the bare name of no popular domain, has no typosquat finding.
C7_FarAndUnnormalizedMeansNoMatch ==
    (/\ Assessed
     /\ last_call.result.base_domain \in FarBaseDomains
     /\ normalized_match(analyzer,
            _normalize_confusables(analyzer, bare_name(last_call.result.base_domain))) = 0)
    => last_call.result.typosquatting_info = None

\* A call on example.com, three edits away from apple and at least as far
\* from every other popular name, with no typosquat finding.
C7_Witness ==
    /\ Assessed
    /\ last_call.result.base_domain = "example.com"
    /\ "example.com" \in FarBaseDomains
    /\ _calculate_levenshtein_distance("example", "apple") = 3
    /\ last_call.result.typosquatting_info = None

\* C8: a host made from paypal.com by putting the Cyrillic letter U+0430 in
\* the place of the Latin a of paypal has a homograph finding whose matched
\* brand is paypal.com, and its score is at least 0.5.
C8_CyrillicPaypalIsHomograph ==
    (Assessed /\ last_call.result.domain = "p" \o CYRILLIC_A \o "ypal.com") =>
        /\ last_call.result.homograph_info # None
        /\ last_call.result.homograph_info.matched_brand = Str("paypal.com")
        /\ last_call.result.risk_score >= 50

\* host is four groups of one to three digits with dots between them.
dotted_quad(host) ==
    LET groups == split(host, ".") IN
    /\ Len(groups) = 4
    /\ \A g \in 1..4 :
           /\ Len(groups[g]) \in 1..3
           /\ \A k \in 1..Len(groups[g]) : ord(Char(groups[g], k)) \in 48..57

\* u1 and u2 are the same URL, u1 with the scheme http and u2 with https.
same_but_scheme(u1, u2) ==
    /\ startswith(u1, "http://")
    /\ startswith(u2, "https://")
    /\ SubSeq(u1, 8, Len(u1)) = SubSeq(u2, 9, Len(u2))

IpFactor == "IP address used instead of domain name"

\* C9: for a URL whose host is a dotted-quad IP literal, has_ip_address is
\* true, the aggregator adds exactly +0.30 for it with exactly one IP factor,
\* and has_ip_address and that contribution are the same for the http and
\* the https form of the URL.
C9_IpLiteral ==
    (Assessed /\ dotted_quad(last_call.result.domain)) =>
        /\ last_call.result.has_ip_address
        /\ ip_steps(last_call.result) = <<[weight |-> 30, factor |-> IpFactor]>>
        /\ sum_weights(risk_steps(last_call.result))
             - sum_weights(risk_steps([last_call.result EXCEPT !.has_ip_address = FALSE])) = 30
        /\ Cardinality({k \in 1..Len(last_call.result.risk_factors) :
                            last_call.result.risk_factors[k] = IpFactor}) = 1
        /\ (/\ is_assessment(first_call.result)
            /\ \/ same_but_scheme(first_call.url, last_call.url)
               \/ same_but_scheme(last_call.url, first_call.url))
           => /\ first_call.result.has_ip_address = last_call.result.has_ip_address
              /\ ip_steps(first_call.result) = ip_steps(last_call.result)

\* http://192.168.1.1/login analysed first and https://192.168.1.1/login
\* after it: both with has_ip_address, scores 0.69 and 0.59.
C9_Witness ==
    /\ Assessed
    /\ first_call.url = "http://192.168.1.1/login"
    /\ last_call.url = "https://192.168.1.1/login"
    /\ first_call.result.has_ip_address /\ last_call.result.has_ip_address
    /\ first_call.result.risk_score = 69
    /\ last_call.result.risk_score = 59

\* The score that the aggregator gives to the features with url_length l.
score_at_length(features, l) ==
    _calculate_risk_score([features EXCEPT !.url_length = l])[1]

\* The lengths at which the features of a call are scored again: the
\* lengths of the inputs and the two thresholds with their neighbours.
LengthSamples == {Len(u) : u \in Inputs} \cup {0, 75, 76, 100, 101}

\* r1 and r2 agree in everything the aggregator reads but url_length.
same_but_length(r1, r2) ==
    \A key \in ResultKeys \ {"url", "url_length", "risk_score", "risk_factors"} :
        r1[key] = r2[key]

\* C10: of two feature sets that differ in url_length only, the one with the
\* larger url_length gets a score at least as high; crossing 75 or 100
\* characters never lowers the score.
C10_LengthMonotone ==
    Assessed =>
        /\ LET scores == {<<l, score_at_length(last_call.result, l)>> : l \in LengthSamples}
           IN  \A p, q \in scores : p[1] <= q[1] => p[2] <= q[2]
        /\ (/\ is_assessment(first_call.result)
            /\ same_but_length(first_call.result, last_call.result)
            /\ first_call.result.url_length <= last_call.result.url_length)
           => first_call.result.risk_score <= last_call.result.risk_score

\* http://example.com/ analysed first and then again with 60 more characters
\* of path: the second URL is longer than 75 characters and scores higher.
C10_Witness ==
    /\ Assessed
    /\ first_call.url = "http://example.com/"
    /\ last_call.url = "http://example.com/" \o filler(2 * PadBlock)
    /\ same_but_length(first_call.result, last_call.result)
    /\ first_call.result.url_length <= 75
    /\ last_call.result.url_length > 75
    /\ first_call.result.risk_score < last_call.result.risk_score

(***************************************************************************)
(* The conditions of _calculate_risk_score in the order of its             *)
(* if-statements, and the beginnings of the factor texts of each           *)
(***************************************************************************)
FactorPrefixes ==
    << {"Very long URL (>100 chars)", "Long URL (>75 chars)"},
       {"No HTTPS encryption"},
       {"IP address used instead of domain name"},
       {"Contains @ symbol"},
       {"Contains redirect pattern"},
       {"Hyphen in domain"},
       {"Underscore in domain"},
       {"Suspicious path pattern"},
       {"Suspicious keywords: "},
       {"Suspicious top-level domain"},
       {"Many subdomains (", "Multiple subdomains ("},
       {"Non-standard port specified"},
       {"Internationalized domain name (punycode)"},
       {"TYPOSQUATTING: "},
       {"HOMOGRAPH ATTACK: ", "Mixed Unicode scripts detected",
        "Contains confusable Unicode characters"},
       {"BRAND IMPERSONATION: "},
       {"Brand name in URL path: "},
       {"Deceptive URL pattern: "} >>

\* The condition of the k-th if-statement on the features of a result.
Triggered(features, k) ==
    CASE k = 1 -> features.url_length > 75
      [] k = 2 -> ~features.has_https
      [] k = 3 -> features.has_ip_address
      [] k = 4 -> features.has_at_symbol
      [] k = 5 -> features.has_redirect
      [] k = 6 -> features.has_hyphen
      [] k = 7 -> features.has_underscore
      [] k = 8 -> features.has_dot_in_path \/ features.has_double_slash
      [] k = 9 -> Len(features.suspicious_keywords) > 0
      [] k = 10 -> features.suspicious_tld
      [] k = 11 -> features.subdomain_count > 2
      [] k = 12 -> features.has_port
      [] k = 13 -> features.is_punycode
      [] k = 14 -> features.typosquatting_info # None
      [] k = 15 -> features.homograph_info # None
      [] k = 16 -> /\ features.brand_impersonation_info # None
                   /\ Len(features.brand_impersonation_info.brand_in_subdomain) > 0
      [] k = 17 -> /\ features.brand_impersonation_info # None
                   /\ Len(features.brand_impersonation_info.brand_in_path) > 0
      [] k = 18 -> /\ features.brand_impersonation_info # None
                   /\ features.brand_impersonation_info.deceptive_pattern # None

\* The conditions whose factor text the string begins with.
ConditionsOf(factor) ==
    {k \in 1..Len(FactorPrefixes) : \E p \in FactorPrefixes[k] : startswith(factor, p)}

\* C11: the risk_factors of an analysis hold no string twice, and they are
\* the factors of the triggered conditions in the order of evaluation
\* (length, HTTPS, IP, @, redirect, hyphen, underscore, path, keywords, TLD,
\* subdomains, port, punycode, typosquat, homograph, brand in subdomain,
\* brand in path, deceptive pattern), one string for each triggered condition.
C11_FactorsOrderedAndDistinct ==
    Assessed =>
        LET factors == last_call.result.risk_factors IN
        /\ \A i, j \in 1..Len(factors) : i # j => factors[i] # factors[j]
        /\ \A i \in 1..Len(factors) : Cardinality(ConditionsOf(factors[i])) = 1
        /\ \A i, j \in 1..Len(factors) :
               i < j => \A a \in ConditionsOf(factors[i]), b \in ConditionsOf(factors[j]) : a < b
        /\ \A k \in 1..Len(FactorPrefixes) :
               Triggered(last_call.result, k)
                   <=> \E i \in 1..Len(factors) : k \in ConditionsOf(factors[i])

\* An analysis with factors from the first and from the last conditions of
\* the order: no HTTPS, hyphen, suspicious TLD and a deceptive pattern.
C11_Witness ==
    /\ Assessed
    /\ Len(last_call.result.risk_factors) >= 4
    /\ Triggered(last_call.result, 2)
    /\ Triggered(last_call.result, 6)
    /\ Triggered(last_call.result, 18)
    /\ \A k \in {2, 6, 18} :
           \E i \in 1..Len(last_call.result.risk_factors) :
               k \in ConditionsOf(last_call.result.risk_factors[i])

\* C12: after the scheme-prepend step the parsed host is never empty: every
\* input for which analyze_url produces an assessment has a non-empty
\* domain field.
C12_HostNeverEmpty ==
    Assessed => last_call.result.domain # ""

\* The string starts with one of the two prefixes that analyze_url accepts.
has_scheme_prefix(url) == startswith(url, "http://") \/ startswith(url, "https://")

\* The url that a result of analyze_url carries, assessment or error record.
url_of(result) == result.url

\* analyze_url("http://" + d) for the inputs d that have no scheme prefix
AnalyzedWithHttp ==
    {<<d, analyze_url(URLAnalyzer_init, "http://" \o d)>> :
        d \in {u \in Inputs : ~has_scheme_prefix(u)}}

with_http(s, d) ==
    IF s = URLAnalyzer_init
    THEN (CHOOSE p \in AnalyzedWithHttp : p[1] = d)[2]
    ELSE analyze_url(s, "http://" \o d)

\* C13: an input d that starts neither with http:// nor with https:// gets
\* exactly the result of "http://" + d, and an input that starts with one of
\* them is analysed as it is.
C13_MissingSchemeIsHttp ==
    last_call # None =>
        /\ ~has_scheme_prefix(last_call.url)
               => last_call.result = with_http(analyzer, last_call.url)
        /\ (/\ first_call # None
            /\ ~has_scheme_prefix(first_call.url)
            /\ last_call.url = "http://" \o first_call.url)
               => last_call.result = first_call.result
        /\ has_scheme_prefix(last_call.url) => url_of(last_call.result) = last_call.url

\* amaz0n.com analysed without a scheme and then with http:// in front: the
\* same assessment both times, of the URL http://amaz0n.com.
C13_Witness ==
    /\ Assessed
    /\ first_call.url = "amaz0n.com"
    /\ last_call.url = "http://amaz0n.com"
    /\ first_call.result = last_call.result
    /\ last_call.result.url = "http://amaz0n.com"
    /\ last_call.result.domain = "amaz0n.com"
    /\ ~last_call.result.has_https

\* C14: a URL without HTTPS whose host has a hyphen, with four suspicious
\* keywords in host and path and the security-keyword-prefix pattern and no
\* other signal (http://secure-login-bank.com/verify-account), gets a risk
\* score strictly greater than 0.5.
C14_KeywordChainAboveHalf ==
    (/\ Assessed
     /\ ~last_call.result.has_https
     /\ last_call.result.has_hyphen
     /\ Len(last_call.result.suspicious_keywords) = 4
     /\ last_call.result.brand_impersonation_info # None
     /\ last_call.result.brand_impersonation_info.deceptive_pattern
            = Str("security_keyword_prefix")
     /\ Len(last_call.result.risk_factors) = 4)
        => last_call.result.risk_score > 50

\* What follows the host in the URL of a result with scheme https.
after_host(result) ==
    SubSeq(result.url, Len("https://") + Len(result.domain) + 1, Len(result.url))

\* An assessment of an HTTPS URL on www.<trusted domain> with no suspicious
\* keyword and no deceptive pattern after the host.
OnTrustedWww(result) ==
    /\ is_assessment(result)
    /\ result.has_https
    /\ \E k \in 1..Len(POPULAR_DOMAINS) : result.domain = "www." \o POPULAR_DOMAINS[k]
    /\ _check_keywords(URLAnalyzer_init, after_host(result)) = <<>>
    /\ first_deceptive_pattern(after_host(result)) = None

NoFinding(result) ==
    /\ result.typosquatting_info = None
    /\ result.homograph_info = None
    /\ result.brand_impersonation_info = None

\* C15 as stated: an HTTPS URL on www.<trusted domain> whose path has no
\* suspicious keyword and no deceptive pattern has no typosquat, homograph or
\* impersonation finding and a risk score below 0.3.
C15_TrustedWwwBelowThreshold ==
    (last_call # None /\ OnTrustedWww(last_call.result))
        => NoFinding(last_call.result) /\ last_call.result.risk_score < 30

\* C15: an HTTPS URL on www.<trusted domain> whose path has no suspicious
\* keyword and no deceptive pattern has no typosquat, homograph or
\* impersonation finding; its risk score is below 0.3 when the URL has at
\* most 75 characters or no // after its scheme.
C15_TrustedWwwNoFinding ==
    (last_call # None /\ OnTrustedWww(last_call.result))
        => /\ NoFinding(last_call.result)
           /\ (last_call.result.url_length <= 75 \/ ~last_call.result.has_redirect)
                  => last_call.result.risk_score < 30

\* The safe URL of the test, https://www.google.com/search, with score 0, and
\* before it a URL on www.google.com of 77 characters with // and a dot in
\* its path, with no finding and score 0.33.
C15_Witness ==
    /\ Assessed
    /\ last_call.url = "https://www.google.com/search"
    /\ OnTrustedWww(last_call.result)
    /\ NoFinding(last_call.result)
    /\ last_call.result.risk_score = 0
    /\ OnTrustedWww(first_call.result)
    /\ first_call.result.url_length > 75
    /\ first_call.result.has_redirect
    /\ NoFinding(first_call.result)
    /\ first_call.result.risk_score = 33

\* The weight, in hundredths, that the k-th condition of the aggregator adds
\* when it holds on the features.
WeightOf(features, k) ==
    CASE k = 1 -> IF features.url_length > 100 THEN 15 ELSE 8
      [] k = 2 -> 10
      [] k = 3 -> 30
      [] k = 4 -> 25
      [] k = 5 -> 15
      [] k = 6 -> 5
      [] k = 7 -> 8
      [] k = 8 -> 10
      [] k = 9 -> Min(20, 4 * Len(features.suspicious_keywords))
      [] k = 10 -> 15
      [] k = 11 -> IF features.subdomain_count > 3 THEN 15 ELSE 8
      [] k = 12 -> 10
      [] k = 13 -> 20
      [] k = 14 -> IF features.typosquatting_info.distance <= 1 THEN 40 ELSE 30
      [] k = 15 -> IF features.homograph_info.matched_brand # None THEN 50
                   ELSE IF features.homograph_info.is_mixed_script THEN 35 ELSE 25
      [] k = 16 -> 35
      [] k = 17 -> 20
      [] k = 18 -> 15

\* The sum of the weights of the conditions among lo..hi that hold.
RECURSIVE WeightSum(_, _, _)
WeightSum(features, lo, hi) ==
    IF lo > hi THEN 0
    ELSE (IF Triggered(features, lo) THEN WeightOf(features, lo) ELSE 0)
         + WeightSum(features, lo + 1, hi)

\* C16: the score is min(1.0, sum of the fixed weights of the triggered
\* conditions), with no weight capped before the final clamp but the keyword
\* weight min(0.20, 0.04 per hit).
C16_ScoreIsClampedWeightSum ==
    Assessed =>
        last_call.result.risk_score
            = Min(100, WeightSum(last_call.result, 1, Len(FactorPrefixes)))

\* A typosquat at distance 2 whose weights add up to 0.40 (no HTTPS and the
\* lower typosquat weight), after a call whose weights add up to more than
\* 1.0 and whose score is 1.0.
C16_Witness ==
    /\ Assessed
    /\ last_call.result.typosquatting_info # None
    /\ last_call.result.typosquatting_info.distance = 2
    /\ WeightSum(last_call.result, 1, Len(FactorPrefixes)) = 40
    /\ last_call.result.risk_score = 40
    /\ is_assessment(first_call.result)
    /\ WeightSum(first_call.result, 1, Len(FactorPrefixes)) > 100
    /\ first_call.result.risk_score = 100

(***************************************************************************)
(* The helper methods called on their own.  A behaviour of HelperSpec      *)
(* starts with one call drawn from PendingCalls, not yet made, in          *)
(* last_call, and its one step makes the call on the analyzer.             *)
(***************************************************************************)
\* the longest string of LevAlphabet among the arguments
MaxStrLen == 3

LevAlphabet == {"a", "b"}

\* the strings of at most n characters of LevAlphabet
RECURSIVE StringsUpTo(_)
StringsUpTo(n) ==
    IF n = 0 THEN {""}
    ELSE LET shorter == StringsUpTo(n - 1)
         IN  shorter \cup {s \o c : s \in shorter, c \in LevAlphabet}

\* bare labels of candidates and of registry entries
RealLabels ==
    { "google", "googel", "gooogle", "g00g1e", "amazon", "amaz0n", "paypal", "paypa1",
      "microsoft", "microsft", "ups", "usps", "uaps", "usp", "live", "lyft" }

Labels == StringsUpTo(MaxStrLen) \cup RealLabels

\* base domains passed to _detect_typosquatting
TyposquatCandidates ==
    { "gooogle.com", "googel.com", "microsft.com", "amaz0n.com", "paypa1.com", "g00g1e.com",
      "example.com", "secure-login-bank.com", "amazon.net", "ups.net", "google.com",
      "ups.com", "uaps.com", "usp.com", "lyve.com", "zelle.com", "", "localhost",
      "faceb00k.com", "netflix.org", "appel.com" }

pending(method, args) ==
    [method |-> method, args |-> args, done |-> FALSE, result |-> None]

PendingCalls ==
    {pending("_calculate_levenshtein_distance", <<s1, s2>>) : s1 \in Labels, s2 \in Labels}
    \cup {pending("_identify_typosquat_type", <<t, r>>) : t \in Labels, r \in Labels}
    \cup {pending("_detect_typosquatting", <<d>>) : d \in TyposquatCandidates}

HelperInit ==
    /\ analyzer = URLAnalyzer_init
    /\ first_call = None
    /\ calls = 0
    /\ last_call \in PendingCalls

\* the call in last_call is made and returns value
returns(value) ==
    /\ last_call' = [last_call EXCEPT !.done = TRUE, !.result = value]
    /\ calls' = calls + 1
    /\ UNCHANGED <<analyzer, first_call>>

CallLevenshtein ==
    /\ last_call.method = "_calculate_levenshtein_distance"
    /\ ~last_call.done
    /\ returns(_calculate_levenshtein_distance(last_call.args[1], last_call.args[2]))

CallIdentifyTyposquatType ==
    /\ last_call.method = "_identify_typosquat_type"
    /\ ~last_call.done
    /\ returns(_identify_typosquat_type(last_call.args[1], last_call.args[2]))

CallDetectTyposquatting ==
    /\ last_call.method = "_detect_typosquatting"
    /\ ~last_call.done
    /\ returns(_detect_typosquatting(analyzer, last_call.args[1]))

HelperNext == CallLevenshtein \/ CallIdentifyTyposquatType \/ CallDetectTyposquatting

HelperSpec == HelperInit /\ [][HelperNext]_vars

\* The call of the given method in last_call has returned.
Returned(method) == last_call.method = method /\ last_call.done

\* The candidate is an entry of the registry.
is_trusted(domain) == \E i \in 1..Len(POPULAR_DOMAINS) : POPULAR_DOMAINS[i] = domain

\* The distance between the bare labels of the candidate and of entry i.
distance_to(domain, i) ==
    _calculate_levenshtein_distance(bare_name(domain), bare_name(POPULAR_DOMAINS[i]))

\* The normalization branch returns: normalizing changes the bare label of
\* the candidate into the bare label of a registry entry.
normalization_fires(domain) ==
    LET normalized == _normalize_confusables(URLAnalyzer_init, bare_name(domain)) IN
    /\ normalized # bare_name(domain)
    /\ \E i \in 1..Len(POPULAR_DOMAINS) : bare_name(POPULAR_DOMAINS[i]) = normalized

\* The entry at the least distance among those within 0 < d <= 2, the
\* earliest of them in the registry; None when no entry is within the range.
nearest_entry(domain) ==
    LET near == {i \in 1..Len(POPULAR_DOMAINS) :
                    distance_to(domain, i) > 0 /\ distance_to(domain, i) <= 2}
    IN  IF near = {} THEN None
        ELSE LET best == CHOOSE i \in near : \A j \in near :
                            \/ distance_to(domain, i) < distance_to(domain, j)
                            \/ distance_to(domain, i) = distance_to(domain, j) /\ i <= j
             IN  [ target_domain |-> POPULAR_DOMAINS[best],
                   distance      |-> distance_to(domain, best),
                   type |-> _identify_typosquat_type(bare_name(domain),
                                                     bare_name(POPULAR_DOMAINS[best])) ]

\* C17: for a candidate that is not a registry entry and on which the
\* normalization branch does not fire, _detect_typosquatting returns the
\* entry whose bare label is at the least Levenshtein distance d from the
\* candidate's bare label among the entries with 0 < d <= 2, the earliest
\* entry on ties, and nothing when no entry is within that range.
C17_NearestEntryEarliestOnTies ==
    (/\ Returned("_detect_typosquatting")
     /\ ~is_trusted(last_call.args[1])
     /\ ~normalization_fires(last_call.args[1]))
        => last_call.result = nearest_entry(last_call.args[1])

\* uaps.com: ups.com and usps.com are both at distance 1, and the detector
\* returns ups.com, which stands earlier in the registry.
C17_Witness ==
    /\ Returned("_detect_typosquatting")
    /\ last_call.args[1] = "uaps.com"
    /\ ~is_trusted("uaps.com") /\ ~normalization_fires("uaps.com")
    /\ \E i, j \in 1..Len(POPULAR_DOMAINS) :
          /\ i < j
          /\ POPULAR_DOMAINS[i] = "ups.com" /\ POPULAR_DOMAINS[j] = "usps.com"
          /\ distance_to("uaps.com", i) = 1 /\ distance_to("uaps.com", j) = 1
    /\ last_call.result # None
    /\ last_call.result.target_domain = "ups.com"
    /\ last_call.result.distance = 1

\* The registry entries whose bare label is the normalized bare label of
\* the candidate.
normalized_equals(domain) ==
    {i \in 1..Len(POPULAR_DOMAINS) :
        bare_name(POPULAR_DOMAINS[i])
            = _normalize_confusables(URLAnalyzer_init, bare_name(domain))}

\* The zero-distance finding for the first of the entries of hits.
zero_distance_match(hits) ==
    [ target_domain |-> POPULAR_DOMAINS[CHOOSE i \in hits : \A j \in hits : i <= j],
      distance      |-> 0,
      type          |-> "character_substitution" ]

\* C18 as stated: for a candidate that is not a registry entry, whenever the
\* normalized bare label equals the bare label of a registry entry, the
\* detector reports a zero-distance character substitution of that entry,
\* whatever the first loop found.
C18_NormalizedEqualAlwaysReported ==
    (/\ Returned("_detect_typosquatting")
     /\ ~is_trusted(last_call.args[1])
     /\ normalized_equals(last_call.args[1]) # {})
        => last_call.result = zero_distance_match(normalized_equals(last_call.args[1]))

\* C18: for a candidate that is not a registry entry, whenever normalization
\* changes the bare label and the normalized label equals the bare label of
\* a registry entry, the detector reports a zero-distance character
\* substitution of that entry, whatever the first loop found; when
\* normalization leaves the label as it is, the detector returns what the
\* first loop found.
C18_ChangedAndEqualReported ==
    (/\ Returned("_detect_typosquatting")
     /\ ~is_trusted(last_call.args[1])
     /\ normalized_equals(last_call.args[1]) # {})
        => IF _normalize_confusables(URLAnalyzer_init, bare_name(last_call.args[1]))
                  # bare_name(last_call.args[1])
           THEN last_call.result = zero_distance_match(normalized_equals(last_call.args[1]))
           ELSE last_call.result = nearest_entry(last_call.args[1])

\* amaz0n.com: the first loop finds amazon.com at distance 1, and the
\* detector returns the zero-distance match of the normalized label.
C18_Witness ==
    /\ Returned("_detect_typosquatting")
    /\ last_call.args[1] = "amaz0n.com"
    /\ ~is_trusted("amaz0n.com")
    /\ _normalize_confusables(URLAnalyzer_init, "amaz0n") = "amazon"
    /\ nearest_entry("amaz0n.com") # None
    /\ nearest_entry("amaz0n.com").distance = 1
    /\ last_call.result = [ target_domain |-> "amazon.com", distance |-> 0,
                            type |-> "character_substitution" ]

\* Two labels of one length that differ at positions p and p + 1 and nowhere
\* else, each holding at one of the two the character the other holds at
\* the other.
swapped_at(typo, real, p) ==
    /\ Char(typo, p) # Char(real, p)
    /\ Char(typo, p + 1) # Char(real, p + 1)
    /\ Char(typo, p) = Char(real, p + 1)
    /\ Char(typo, p + 1) = Char(real, p)
    /\ \A q \in 1..Len(typo) : q \notin {p, p + 1} => Char(typo, q) = Char(real, q)

\* C19: a longer candidate is an insertion, a shorter one an omission; of
\* two labels of equal length the type is transposition exactly when they
\* differ in exactly two positions that are adjacent and hold each other's
\* characters, and substitution in every other case.
C19_EditTypeClassification ==
    Returned("_identify_typosquat_type") =>
        LET typo == last_call.args[1]
            real == last_call.args[2]
        IN  /\ Len(typo) > Len(real) => last_call.result = "character_insertion"
            /\ Len(typo) < Len(real) => last_call.result = "character_omission"
            /\ Len(typo) = Len(real) =>
                  /\ last_call.result = "character_transposition"
                        <=> \E p \in 1..(Len(typo) - 1) : swapped_at(typo, real, p)
                  /\ last_call.result = "character_substitution"
                        <=> ~ \E p \in 1..(Len(typo) - 1) : swapped_at(typo, real, p)

\* googel against google: the same length, different at positions 5 and 6
\* only, which hold l, e and e, l: a transposition.
C19_Witness ==
    /\ Returned("_identify_typosquat_type")
    /\ last_call.args = <<"googel", "google">>
    /\ swapped_at("googel", "google", 5)
    /\ last_call.result = "character_transposition"

\* the least number of a non-empty set of numbers
least(S) == CHOOSE x \in S : \A y \in S : x <= y

\* The edit distance by its definition: the least number of insertions,
\* deletions and substitutions of one character that turn s into t.
RECURSIVE edit_distance(_, _)
edit_distance(s, t) ==
    IF s = "" THEN Len(t)
    ELSE IF t = "" THEN Len(s)
    ELSE least({ edit_distance(SubSeq(s, 2, Len(s)), t) + 1,
                 edit_distance(s, SubSeq(t, 2, Len(t))) + 1,
                 edit_distance(SubSeq(s, 2, Len(s)), SubSeq(t, 2, Len(t)))
                     + (IF Char(s, 1) = Char(t, 1) THEN 0 ELSE 1) })

\* C20: _calculate_levenshtein_distance(s1, s2) is the edit distance with
\* unit costs of s1 and s2, empty strings included: it is 0 exactly when
\* s1 = s2, the same in both orders of the arguments, and the length of the
\* other string when one string is empty.
C20_LevenshteinIsEditDistance ==
    Returned("_calculate_levenshtein_distance") =>
        LET s1 == last_call.args[1]
            s2 == last_call.args[2]
        IN  /\ (Len(s1) <= MaxStrLen /\ Len(s2) <= MaxStrLen)
                   => last_call.result = edit_distance(s1, s2)
            /\ last_call.result = 0 <=> s1 = s2
            /\ last_call.result = _calculate_levenshtein_distance(s2, s1)
            /\ s1 = "" => last_call.result = Len(s2)
            /\ s2 = "" => last_call.result = Len(s1)
            /\ last_call.result <= (IF Len(s1) > Len(s2) THEN Len(s1) ELSE Len(s2))
            /\ last_call.result >= (IF Len(s1) > Len(s2) THEN Len(s1) - Len(s2)
                                    ELSE Len(s2) - Len(s1))

\* "ab" against "bab": the shorter string comes first, so the arguments are
\* exchanged; one insertion, distance 1.
C20_Witness ==
    /\ Returned("_calculate_levenshtein_distance")
    /\ last_call.args = <<"ab", "bab">>
    /\ edit_distance("ab", "bab") = 1
    /\ last_call.result = 1

\* The character is a key of the confusable map ("char in CONFUSABLE_CHARS").
is_confusable(char) == dict_has(URLAnalyzer_init.confusable_chars, <<ord(char)>>)

\* The 0-based positions of the host that hold a key of the confusable map.
confusable_positions(domain) ==
    {i - 1 : i \in {k \in 1..Len(domain) : is_confusable(Char(domain, k))}}

\* C21: _detect_homograph_attack returns a finding exactly when the host
\* holds at least one key of the confusable map; the finding has one entry
\* for each such character, in increasing order of position, and it is
\* returned also when no brand matches and the scripts are not mixed.
C21_FindingIffConfusableCharacter ==
    Assessed =>
        LET domain == last_call.result.domain
            info   == last_call.result.homograph_info
        IN  /\ info # None <=> confusable_positions(domain) # {}
            /\ info # None =>
                  /\ Len(info.confusable_chars) = Cardinality(confusable_positions(domain))
                  /\ {info.confusable_chars[k].position : k \in 1..Len(info.confusable_chars)}
                         = confusable_positions(domain)
                  /\ \A j, k \in 1..Len(info.confusable_chars) :
                         j < k => info.confusable_chars[j].position
                                      < info.confusable_chars[k].position
                  /\ \A k \in 1..Len(info.confusable_chars) :
                         info.confusable_chars[k].original
                             = Char(domain, info.confusable_chars[k].position + 1)

\* The host 192.168.1.1: seven of its eight digits are keys of the map (6 is not
\* one), no brand matched and no mixed scripts, and a finding with seven
\* entries.
C21_Witness ==
    /\ Assessed
    /\ last_call.result.domain = "192.168.1.1"
    /\ Cardinality(confusable_positions("192.168.1.1")) = 7
    /\ last_call.result.homograph_info # None
    /\ Len(last_call.result.homograph_info.confusable_chars) = 7
    /\ last_call.result.homograph_info.matched_brand = None
    /\ ~last_call.result.homograph_info.is_mixed_script

\* The pattern types in the order of the list deceptive_patterns.
PatternOrder ==
    << "security_keyword_prefix", "fake_tld_in_subdomain", "login_page_pattern",
       "at_symbol_redirect" >>

\* re.search of the k-th pattern of deceptive_patterns in the text.
pattern_matches(k, text) ==
    CASE k = 1 -> search_word_then_separator(text,
                      {"secure", "login", "account", "verify", "update"})
      [] k = 2 -> search_fake_tld(text)
      [] k = 3 -> search_login_page(text)
      [] k = 4 -> contains(text, "@")

\* The patterns that match the lowercased URL.
patterns_matching(url) ==
    {k \in 1..Len(PatternOrder) : pattern_matches(k, lower(url))}

\* patterns_matching for the URLs that the inputs are analysed as
MatchingPatterns ==
    {<<url, patterns_matching(url)>> : url \in {prepend_scheme(u) : u \in Inputs}}

\* The patterns that match the lowercased URL of a result.
matching_patterns(result) ==
    IF \E p \in MatchingPatterns : p[1] = result.url
    THEN (CHOOSE p \in MatchingPatterns : p[1] = result.url)[2]
    ELSE patterns_matching(result.url)

\* The deceptive_pattern that a result reports, None also when it has no
\* impersonation finding.
reported_pattern(result) ==
    IF result.brand_impersonation_info = None THEN None
    ELSE result.brand_impersonation_info.deceptive_pattern

\* C22: the deceptive-pattern field holds the first pattern that matches the
\* lowercased URL, in the order security_keyword_prefix,
\* fake_tld_in_subdomain, login_page_pattern, at_symbol_redirect; a later
\* pattern that matches too is not recorded, and the field is empty only
\* when no pattern matches.
C22_FirstMatchingPattern ==
    Assessed =>
        LET matching == matching_patterns(last_call.result) IN
        /\ matching = {} <=> reported_pattern(last_call.result) = None
        /\ matching # {} =>
               reported_pattern(last_call.result)
                   = Str(PatternOrder[CHOOSE k \in matching : \A j \in matching : k <= j])

\* A URL that the first and the second pattern match ("account-" and
\* ".com."): security_keyword_prefix is reported.
C22_Witness ==
    /\ Assessed
    /\ {1, 2} \subseteq matching_patterns(last_call.result)
    /\ reported_pattern(last_call.result) = Str("security_keyword_prefix")

\* The brand tokens that the primary label of the base domain contains
\* without being that label.
fragment_brands(base_domain) ==
    {b \in 1..Len(BRAND_NAMES) :
        /\ contains(bare_name(lower(base_domain)), BRAND_NAMES[b])
        /\ bare_name(lower(base_domain)) # BRAND_NAMES[b]}

\* The brands that a result reports with the context domain_fragment.
reported_fragments(result) ==
    IF result.brand_impersonation_info = None THEN {}
    ELSE {result.brand_impersonation_info.brand_in_path[k].brand :
            k \in {j \in 1..Len(result.brand_impersonation_info.brand_in_path) :
                     result.brand_impersonation_info.brand_in_path[j].context
                         = "domain_fragment"}}

\* C23: for a base domain that is not a trusted entry and whose primary
\* label holds a brand token as a proper fragment (secure-amazon-login.com),
\* the impersonation detector records that brand as a domain-fragment hit.
C23_FragmentBrandRecorded ==
    (Assessed /\ ~is_trusted(last_call.result.base_domain))
        => \A b \in fragment_brands(last_call.result.base_domain) :
               BRAND_NAMES[b] \in reported_fragments(last_call.result)

\* The brands of a list of hits, in the order of the list.
brands_of(hits) == [k \in 1..Len(hits) |-> hits[k].brand]

\* No entry of the sequence occurs twice.
no_repetition(seq) == \A j, k \in 1..Len(seq) : j # k => seq[j] # seq[k]

\* C24: the brands of an impersonation finding form sets: no brand token
\* occurs more than once in brand_in_subdomain, nor more than once in
\* brand_in_path, also when a brand is repeated over several subdomain
\* labels.
C24_BrandsFormSets ==
    (Assessed /\ last_call.result.brand_impersonation_info # None)
        => /\ no_repetition(brands_of(last_call.result.brand_impersonation_info.brand_in_subdomain))
           /\ no_repetition(brands_of(last_call.result.brand_impersonation_info.brand_in_path))

\* The candidate is no registry entry, and its bare label is the bare label
\* of a registry entry: the same name under another TLD.
tld_swapped(domain) ==
    /\ ~is_trusted(domain)
    /\ \E i \in 1..Len(POPULAR_DOMAINS) : bare_name(POPULAR_DOMAINS[i]) = bare_name(domain)

\* The result has no typosquat factor.
no_typosquat_factor(result) ==
    \A k \in 1..Len(result.risk_factors) : ~startswith(result.risk_factors[k], "TYPOSQUATTING")

\* C25 as stated: a candidate whose bare label equals a trusted bare label
\* while its TLD differs gets no typosquat match and so no typosquat weight.
C25_TldSwapNeverMatched ==
    (Assessed /\ tld_swapped(last_call.result.base_domain))
        => /\ last_call.result.typosquatting_info = None
           /\ no_typosquat_factor(last_call.result)

\* C25: for a candidate whose bare label equals a trusted bare label while
\* its TLD differs, the typosquat detector never reports the trusted domain
\* of that label; it returns the nearest other entry within distance 1 or 2
\* when there is one, and only otherwise no match, and the URL gets a
\* typosquat factor exactly when a match is returned.
C25_TldSwapSameLabelNotReported ==
    (Assessed /\ tld_swapped(last_call.result.base_domain))
        => LET info == last_call.result.typosquatting_info IN
           /\ info = nearest_entry(last_call.result.base_domain)
           /\ info # None =>
                  /\ bare_name(info.target_domain) # bare_name(last_call.result.base_domain)
                  /\ info.distance \in {1, 2}
           /\ info = None <=> no_typosquat_factor(last_call.result)

\* amazon.net, with no match and no typosquat factor, and after it ups.net,
\* reported as a typosquat of usps.com at distance 1.
C25_Witness ==
    /\ Assessed
    /\ first_call.url = "http://amazon.net"
    /\ tld_swapped("amazon.net")
    /\ first_call.result.typosquatting_info = None
    /\ no_typosquat_factor(first_call.result)
    /\ last_call.url = "http://ups.net"
    /\ tld_swapped("ups.net")
    /\ last_call.result.typosquatting_info
           = [target_domain |-> "usps.com", distance |-> 1, type |-> "character_omission"]
    /\ ~no_typosquat_factor(last_call.result)

\* What follows the leading scheme separator "://" of the URL.
after_scheme(url) == SubSeq(url, find(url, "://") + Len("://"), Len(url))

\* C26: has_redirect is true exactly when the URL has a double slash
\* somewhere after its leading scheme separator; a URL that embeds a second
\* absolute URL of the same scheme (http://a.com/?u=http://b.com) has
\* has_redirect true and gets the redirect weight +0.15.
C26_RedirectIffDoubleSlashAfterScheme ==
    Assessed =>
        /\ last_call.result.has_redirect
               <=> contains(after_scheme(last_call.result.url), "//")
        /\ last_call.result.has_redirect
               <=> \E k \in 1..Len(last_call.result.risk_factors) :
                       last_call.result.risk_factors[k] = "Contains redirect pattern (//)"

\* Every pair of labels that _identify_typosquat_type classifies as a
\* transposition is at Levenshtein distance 2.
SwapsAtDistanceTwo ==
    \A typo \in Labels, real \in Labels :
        _identify_typosquat_type(typo, real) = "character_transposition"
            => _calculate_levenshtein_distance(typo, real) = 2

\* C27: a typosquat match classified as transposition has edit distance 2
\* and contributes the lower weight +0.30, never +0.40: two labels that
\* differ by a swap of two adjacent different characters are never within
\* Levenshtein distance 1.
C27_TranspositionAtDistanceTwo ==
    /\ SwapsAtDistanceTwo
    /\ (/\ Assessed
        /\ last_call.result.typosquatting_info # None
        /\ last_call.result.typosquatting_info.type = "character_transposition")
       => /\ last_call.result.typosquatting_info.distance = 2
          /\ \E k \in 1..Len(last_call.result.risk_factors) :
                 startswith(last_call.result.risk_factors[k], "TYPOSQUATTING: Similar to ")
          /\ last_call.result.risk_score
                 = Min(100, 30 + WeightSum(last_call.result, 1, 13)
                               + WeightSum(last_call.result, 15, Len(FactorPrefixes)))

\* googel.com: a transposition of google.com at distance 2, scored 0.40 in
\* all, 0.10 for the missing HTTPS and 0.30 for the typosquat.
C27_Witness ==
    /\ Assessed
    /\ last_call.result.base_domain = "googel.com"
    /\ last_call.result.typosquatting_info
           = [target_domain |-> "google.com", distance |-> 2, type |-> "character_transposition"]
    /\ _calculate_levenshtein_distance("googel", "google") = 2
    /\ last_call.result.risk_score = 40

\* The page names of the login page pattern that stand in the lowercased URL
\* before ".php", ".html" or ".asp".
page_names_in(url) ==
    {w \in {"signin", "sign-in", "log-in", "login"} :
        \E ext \in {"php", "html", "asp"} : contains(lower(url), w \o "." \o ext)}

\* page_names_in for the URLs that the inputs are analysed as
PageNames ==
    {<<url, page_names_in(url)>> : url \in {prepend_scheme(u) : u \in Inputs}}

\* The page names in the URL of a result.
page_names(result) ==
    IF \E p \in PageNames : p[1] = result.url
    THEN (CHOOSE p \in PageNames : p[1] = result.url)[2]
    ELSE page_names_in(result.url)

\* C28: a URL that holds login.php, login.html or login.asp is reported as
\* security_keyword_prefix; login_page_pattern is reported only when the
\* page name is signin, sign-in or log-in and neither the security keyword
\* pattern nor the fake TLD pattern matches anywhere in the URL.
C28_LoginPageShadowed ==
    Assessed =>
        /\ "login" \in page_names(last_call.result)
               => reported_pattern(last_call.result) = Str("security_keyword_prefix")
        /\ reported_pattern(last_call.result) = Str("login_page_pattern")
               => /\ page_names(last_call.result) # {}
                  /\ page_names(last_call.result) \subseteq {"signin", "sign-in", "log-in"}
                  /\ matching_patterns(last_call.result) \cap {1, 2} = {}

\* http://example.com/login.php, reported as security_keyword_prefix, and
\* after it http://example.com/signin.php, reported as login_page_pattern.
C28_Witness ==
    /\ Assessed
    /\ first_call.url = "http://example.com/login.php"
    /\ "login" \in page_names(first_call.result)
    /\ reported_pattern(first_call.result) = Str("security_keyword_prefix")
    /\ last_call.url = "http://example.com/signin.php"
    /\ page_names(last_call.result) = {"signin"}
    /\ reported_pattern(last_call.result) = Str("login_page_pattern")

\* The ASCII digits that are keys of the confusable map.
KeyDigits == {"0", "1", "2", "3", "4", "5", "7", "8", "9"}

\* The host of the result holds one of the digits that are keys of the map.
has_key_digit(result) ==
    \E k \in 1..Len(result.domain) : Char(result.domain, k) \in KeyDigits

\* C29: the digits 0-5 and 7-9 are keys of the confusable map (6 is not), so
\* every host that holds one of them, a dotted-quad IP literal and a host
\* with a numeric port included, yields a homograph finding, and the score
\* is the clamped sum of the other weights and a homograph weight of at
\* least 0.25; for an IP literal the IP weight of 0.30 is among the others.
C29_DigitHostHomographWeight ==
    /\ \A d \in KeyDigits : is_confusable(d)
    /\ ~is_confusable("6")
    /\ (Assessed /\ has_key_digit(last_call.result)) =>
           /\ last_call.result.homograph_info # None
           /\ \E i \in 1..Len(last_call.result.risk_factors) :
                  ConditionsOf(last_call.result.risk_factors[i]) = {15}
           /\ WeightOf(last_call.result, 15) >= 25
           /\ last_call.result.risk_score
                  = Min(100, WeightOf(last_call.result, 15)
                                 + WeightSum(last_call.result, 1, 14)
                                 + WeightSum(last_call.result, 16, Len(FactorPrefixes)))
           /\ last_call.result.has_ip_address =>
                  /\ \E i \in 1..Len(last_call.result.risk_factors) :
                         ConditionsOf(last_call.result.risk_factors[i]) = {3}
                  /\ WeightSum(last_call.result, 3, 3) = 30

\* http://192.168.1.1/login scores 0.69: no HTTPS 0.10, IP literal 0.30, one
\* keyword 0.04 and the homograph weight 0.25; before it a host whose only
\* digits are those of its port 8080, with a finding, and the IP literal
\* 6.6.6.6 has no finding.
C29_Witness ==
    /\ Assessed
    /\ last_call.url = "http://192.168.1.1/login"
    /\ has_key_digit(last_call.result)
    /\ last_call.result.has_ip_address
    /\ last_call.result.homograph_info # None
    /\ last_call.result.homograph_info.matched_brand = None
    /\ last_call.result.risk_score = 69
    /\ WeightSum(last_call.result, 1, 14) = 44
    /\ first_call.url = "http://paypal.secure-login.example.xyz:8080/a//b_c.php?account=1&verify=2"
    /\ first_call.result.domain = "paypal.secure-login.example.xyz:8080"
    /\ first_call.result.has_port
    /\ first_call.result.homograph_info # None
    /\ Len(first_call.result.homograph_info.confusable_chars) = 4
    /\ is_assessment(call_analyze_url(analyzer, "http://6.6.6.6/x"))
    /\ call_analyze_url(analyzer, "http://6.6.6.6/x").has_ip_address
    /\ call_analyze_url(analyzer, "http://6.6.6.6/x").homograph_info = None

(***************************************************************************)
(* The detection route (api/routes/detection.py) and the text classifier   *)
(* it calls (ml/classifier_simple.py).  Confidences and risks are integers *)
(* in units of 10^-8, so that the weights and the products with 1.2, 1.15  *)
(* and 1.25 are whole numbers; the scores of the URL analyzer stay in      *)
(* hundredths.  The sums are exact where the source adds floating-point    *)
(* numbers.                                                                *)
(***************************************************************************)
\* 1.0, and 0.01, in units of 10^-8
One == 100000000

Hundredth == 1000000

\* self.suspicious_keywords
classifier_suspicious_keywords ==
    << "urgent", "immediately", "verify", "confirm", "suspended", "blocked",
       "unauthorized", "unusual", "limited", "expire", "deadline", "final",
       "account", "password", "security", "update", "click", "link",
       "login", "signin", "sign-in", "authenticate", "credentials",
       "bank", "paypal", "credit", "debit", "transfer", "payment", "invoice",
       "billing", "subscription", "refund", "transaction", "wallet",
       "amazon", "netflix", "apple", "microsoft", "google", "facebook",
       "instagram", "whatsapp", "dropbox", "coinbase", "binance",
       "winner", "prize", "congratulations", "lottery", "reward", "gift",
       "free", "bonus", "claim", "selected", "lucky",
       "risk", "compromised", "hacked", "breach", "stolen", "fraud",
       "illegal", "lawsuit", "legal action", "arrest", "police" >>

\* self.urgency_words
urgency_words ==
    << "immediately", "urgent", "hurry", "limited time", "act now",
       "don't delay", "expires", "today only", "last chance", "warning",
       "alert", "asap", "right now", "within 24 hours", "within 48 hours",
       "final notice", "action required", "response required", "must respond" >>

\* self.threat_words
threat_words ==
    << "suspended", "terminated", "closed", "blocked", "disabled",
       "locked", "restricted", "cancelled", "deleted", "removed",
       "legal action", "lawsuit", "court", "police", "arrest",
       "fine", "penalty", "prosecution", "criminal" >>

\* self.impersonation_keywords
impersonation_keywords ==
    << "dear customer", "dear user", "dear member", "valued customer",
       "dear account holder", "dear client", "dear sir/madam" >>

\* The PhishingClassifier object after __init__: the word lists predict reads.
PhishingClassifier_init ==
    [ suspicious_keywords    |-> classifier_suspicious_keywords,
      urgency_words          |-> urgency_words,
      threat_words           |-> threat_words,
      impersonation_keywords |-> impersonation_keywords ]

\* sum(1 for word in words if word in text_lower)
count_in(words, text_lower) ==
    Cardinality({i \in 1..Len(words) : contains(text_lower, words[i])})

\* c.isupper() for the characters of the model's alphabet
isupper(c) == ord(c) \in 65..90

\* r'http[s]?://\S+' matches at position i of the text: "http://" or
\* "https://" and a character that is not whitespace (the space is the only
\* whitespace of the texts).
url_at(text, i) ==
    \/ /\ i + 7 <= Len(text)
       /\ SubSeq(text, i, i + 6) = "http://"
       /\ Char(text, i + 7) # " "
    \/ /\ i + 8 <= Len(text)
       /\ SubSeq(text, i, i + 7) = "https://"
       /\ Char(text, i + 8) # " "

\* The positions among the candidates where a match of re.findall starts:
\* \S+ takes everything up to the next space, so a candidate is inside an
\* earlier match unless a space stands between them.
match_starts(text, candidates) ==
    {i \in candidates :
        \A p \in candidates : p < i => \E k \in p..i : Char(text, k) = " "}

\* The last position of the run of non-space characters that holds position i.
run_end(text, i) ==
    CHOOSE j \in i..Len(text) :
        /\ \A k \in i..j : Char(text, k) # " "
        /\ j = Len(text) \/ Char(text, j + 1) = " "

matches_from(text, starts) ==
    [k \in 1..Len(starts) |-> SubSeq(text, starts[k], run_end(text, starts[k]))]

\* re.findall(r'http[s]?://\S+', text)
findall_urls(text) ==
    matches_from(text, sorted(match_starts(text, {i \in 1..Len(text) : url_at(text, i)})))

\* The matches of the patterns for card numbers, telephone numbers and
\* social security numbers (lines 43, 45, 46) in a text with fewer than nine
\* digits: each of them needs at least nine.
count_number_patterns(text) ==
    CASE Cardinality({i \in 1..Len(text) : isdigit(Char(text, i))}) < 9 -> 0

\* The matches of the pattern for e-mail addresses (line 44) in a text
\* without "@".
count_email_pattern(text) ==
    CASE ~contains(text, "@") -> 0

\* "for pattern in self.suspicious_patterns: ... pattern_count += len(matches)"
\* The first pattern is the URL pattern, matched with re.IGNORECASE.
pattern_count_of(text) ==
    Len(findall_urls(lower(text))) + count_number_patterns(text) + count_email_pattern(text)

\* re.search(r'[!?]{2,}', text)
search_repeated_punctuation(text) ==
    \E i \in 1..(Len(text) - 1) : Char(text, i) \in {"!", "?"} /\ Char(text, i + 1) \in {"!", "?"}

\* "if all_caps_ratio > 0.4: ... elif all_caps_ratio > 0.25: ..." from the
\* number of capitals and the length of the text
caps_risk(upper, length) ==
    IF length > 0 /\ 10 * upper > 4 * length THEN 10 * Hundredth
    ELSE IF length > 0 /\ 100 * upper > 25 * length THEN 5 * Hundredth
    ELSE 0

\* The formatting risk before its cap (lines 122-139).
formatting_risk_of(text) ==
    caps_risk(Cardinality({i \in 1..Len(text) : isupper(Char(text, i))}), Len(text))
    + (IF count(text, "!") > 3 THEN 8 * Hundredth ELSE 0)
    + (IF count(text, "?") > 3 THEN 5 * Hundredth ELSE 0)
    + (IF search_repeated_punctuation(text) THEN 5 * Hundredth ELSE 0)

\* URLAnalyzer().analyze_url(url): the call on a new analyzer, read from the
\* analysed inputs when the URL is one of them.
analyze_on_new_analyzer(url) ==
    IF \E p \in Analyzed : p[1] = url
    THEN (CHOOSE p \in Analyzed : p[1] = url)[2]
    ELSE analyze_url(URLAnalyzer_init, url)

\* The risk scores, in hundredths, of the analyses that have one.
risk_scores(results) ==
    {results[k].risk_score : k \in {i \in 1..Len(results) : "risk_score" \in DOMAIN results[i]}}

\* max_risk after the loop that starts from 0.0
greatest(scores) ==
    IF scores = {} THEN 0 ELSE CHOOSE s \in scores : \A r \in scores : r <= s

\* "for url in urls[:5]: ... max_risk = max(max_risk, result['risk_score'])";
\* every URL is analysed by a new URLAnalyzer.
max_risk_of(urls) ==
    greatest(risk_scores([k \in 1..Min(5, Len(urls)) |-> analyze_on_new_analyzer(urls[k])]))

\* PhishingClassifier._analyze_inline_urls where the import of URLAnalyzer
\* succeeds: min(max_risk * 0.4, 0.35)
_analyze_inline_urls(urls) ==
    Min((max_risk_of(urls) * Hundredth * 4) \div 10, 35 * Hundredth)

\* PhishingClassifier._detect_link_mismatch for a text that holds neither
\* "</a>" nor "](": each of the two link patterns needs one of them, so html_links
\* and md_links are empty and the risk stays 0.0.
_detect_link_mismatch(text) ==
    CASE ~contains(lower(text), "</a>") /\ ~contains(text, "](") -> 0

\* risk_components as predict fills it (lines 86-151)
components(self, text, text_lower, urls) ==
    [ keyword_risk       |-> Min(count_in(self.suspicious_keywords, text_lower) * 6 * Hundredth,
                                 35 * Hundredth),
      pattern_risk       |-> Min(pattern_count_of(text) * 8 * Hundredth, 25 * Hundredth),
      urgency_risk       |-> Min(count_in(self.urgency_words, text_lower) * 8 * Hundredth,
                                 25 * Hundredth),
      threat_risk        |-> Min(count_in(self.threat_words, text_lower) * 10 * Hundredth,
                                 30 * Hundredth),
      impersonation_risk |-> Min(count_in(self.impersonation_keywords, text_lower)
                                     * 10 * Hundredth,
                                 20 * Hundredth),
      formatting_risk    |-> Min(formatting_risk_of(text), 15 * Hundredth),
      url_risk           |-> IF Len(urls) > 0 THEN _analyze_inline_urls(urls) ELSE 0,
      link_mismatch_risk |-> _detect_link_mismatch(text) ]

risk_components_of(self, text) == components(self, text, lower(text), findall_urls(text))

\* sum(risk_components.values())
sum_components(c) ==
    c.keyword_risk + c.pattern_risk + c.urgency_risk + c.threat_risk
    + c.impersonation_risk + c.formatting_risk + c.url_risk + c.link_mismatch_risk

\* "if ...: total_risk *= 1.2" (lines 157-158)
urgent_threat(c, total_risk) ==
    IF c.urgency_risk > 10 * Hundredth /\ c.threat_risk > 10 * Hundredth
    THEN (total_risk \div 10) * 12 ELSE total_risk

\* "if ...: total_risk *= 1.15" (lines 160-161)
impersonation_with_url(c, total_risk) ==
    IF c.impersonation_risk > 10 * Hundredth /\ c.url_risk > 10 * Hundredth
    THEN (total_risk \div 100) * 115 ELSE total_risk

\* "if ...: total_risk *= 1.25" (lines 163-164)
link_mismatch(c, total_risk) ==
    IF c.link_mismatch_risk > 0 THEN (total_risk \div 100) * 125 ELSE total_risk

\* total_risk after the three multipliers
apply_multipliers(c, total_risk) ==
    link_mismatch(c, impersonation_with_url(c, urgent_threat(c, total_risk)))

\* "is_phishing = confidence >= 0.45; return is_phishing, float(confidence)"
verdict_of(confidence) ==
    [is_phishing |-> confidence >= 45 * Hundredth, confidence |-> confidence]

\* The end of predict from the components (lines 154-172).
predict_from(c) == verdict_of(Min(apply_multipliers(c, sum_components(c)), One))

\* PhishingClassifier.predict(text): (is_phishing, confidence)
predict(self, text) == predict_from(risk_components_of(self, text))

\* The exception that leaves a route function.
HTTPException(status_code, detail) ==
    [raised |-> "HTTPException", status_code |-> status_code, detail |-> detail]

\* "if confidence >= 0.8: ... elif confidence >= 0.5: ... else: ..." of analyze_text
text_risk_level(confidence) ==
    IF confidence >= 80 * Hundredth THEN "HIGH"
    ELSE IF confidence >= 50 * Hundredth THEN "MEDIUM"
    ELSE "LOW"

\* The dict analyze_text returns, without the explanation and the
\* recommendations, which are texts of the explainer that nothing reads.
text_analysis_of(prediction) ==
    [ is_phishing |-> prediction.is_phishing,
      confidence  |-> prediction.confidence,
      risk_level  |-> text_risk_level(prediction.confidence) ]

\* detection.analyze_text(text)
route_analyze_text(text) == text_analysis_of(predict(PhishingClassifier_init, text))

\* "if combined_confidence >= 0.7: ... elif combined_confidence >= 0.4: ..." of analyze_url
url_risk_level(combined_confidence) ==
    IF combined_confidence >= 70 * Hundredth THEN "HIGH"
    ELSE IF combined_confidence >= 40 * Hundredth THEN "MEDIUM"
    ELSE "LOW"

\* The dict analyze_url returns from the combined confidence.
combined_result(combined_confidence) ==
    [ is_phishing |-> combined_confidence >= 50 * Hundredth,
      confidence  |-> combined_confidence,
      risk_level  |-> url_risk_level(combined_confidence) ]

\* "combined_confidence = (url_analysis['risk_score'] + text_analysis['confidence']) / 2"
\* An analysis without 'risk_score' (the error record of the URL analyzer)
\* raises KeyError there, which the except clause turns into HTTPException
\* 500.
combine(url_analysis, text_analysis) ==
    IF "risk_score" \in DOMAIN url_analysis
    THEN combined_result((url_analysis.risk_score * Hundredth + text_analysis.confidence) \div 2)
    ELSE HTTPException(500, "Failed to analyze URL")

\* detection.analyze_url(url)
route_analyze_url(url) == combine(analyze_on_new_analyzer(url), route_analyze_text(url))

\* The texts given to analyze_text.
Texts ==
    { "",
      "hello",
      "Urgent: verify your account password immediately",
      "verify account password security update login hurry ??",
      "Hi, just wanted to check in and see how you're doing. Let me know if you need anything.",
      "Please verify your account details by logging in to your profile.",
      "Meeting reminder: Team standup at 10am tomorrow. See you there!",
      "URGENT: Your PayPal account has been suspended! Click here immediately to verify your identity: http://paypa1.com/login",
      "Dear customer, your account will be terminated and closed unless you act now. Hurry, this is the final notice: http://192.168.1.1/login",
      "Your bank account has been compromised. Update your password immediately to avoid losing your funds: http://192.168.1.1/login",
      "WARNING!!!! ACT NOW OR YOUR ACCOUNT IS LOCKED AND DELETED????",
      "Congratulations! You are the lucky winner of a free gift. Claim your prize now",
      "Your account is suspended and blocked",
      "Final notice: legal action and a lawsuit follow, the police will arrest you. Respond today only",
      "Your monthly statement is ready to view. Log in to your account at https://www.google.com/search to review.",
      "Is this you?? Confirm the payment of the invoice, or the refund expires",
      "HTTP://EXAMPLE.COM is written in capitals",
      "Dear user, valued customer, see http://netflix-support.suspicious.tk and https://www.google.com" }

\* The URLs given to analyze_url: the inputs of the analyzer without "@".
RouteUrls == {u \in Inputs : ~contains(u, "@")}

\* The route functions on every input: the pairs <<text, analyze_text(text)>>
\* and <<url, analyze_url(url)>>.  (TLC evaluates these sets once; a call
\* reads its result there.)
TextResults == {<<t, route_analyze_text(t)>> : t \in Texts}

UrlResults == {<<u, route_analyze_url(u)>> : u \in RouteUrls}

\* The calls of the route functions that may be pending.
DetectionCalls ==
    {pending("analyze_text", <<t>>) : t \in Texts}
    \cup {pending("analyze_url", <<u>>) : u \in RouteUrls}

DetectionInit ==
    /\ analyzer = URLAnalyzer_init
    /\ first_call = None
    /\ calls = 0
    /\ last_call \in DetectionCalls

CallAnalyzeText ==
    /\ last_call.method = "analyze_text"
    /\ ~last_call.done
    /\ returns((CHOOSE p \in TextResults : p[1] = last_call.args[1])[2])

CallAnalyzeUrl ==
    /\ last_call.method = "analyze_url"
    /\ ~last_call.done
    /\ returns((CHOOSE p \in UrlResults : p[1] = last_call.args[1])[2])

DetectionNext == CallAnalyzeText \/ CallAnalyzeUrl

DetectionSpec == DetectionInit /\ [][DetectionNext]_vars

\* The call of the route function has returned a result, not raised.
Answered(method) == Returned(method) /\ "risk_level" \in DOMAIN last_call.result

\* C30: in the results of analyze_text and of analyze_url, is_phishing
\* implies a risk_level of MEDIUM or HIGH, and a risk_level of HIGH implies
\* is_phishing.
C30_VerdictAgreesWithRiskLevel ==
    (Answered("analyze_text") \/ Answered("analyze_url")) =>
        /\ last_call.result.is_phishing => last_call.result.risk_level \in {"MEDIUM", "HIGH"}
        /\ last_call.result.risk_level = "HIGH" => last_call.result.is_phishing

=============================================================================
